---- MODULE Spec2Model ----
(***************************************************************************)
(* Entity-resolution pipeline of abiturient-helper:                        *)
(*   scripts/match_official_vs_aggregators.py                              *)
(* A string is a sequence of Unicode code points, so that len(), lower(),  *)
(* the character classes of the regular expressions and the ordering of    *)
(* strings are those of Python.  The characters considered are ASCII, the  *)
(* no-break space, the guillemets, the Cyrillic block U+0400..U+045F, the  *)
(* three dash variants and the curly double quotes.                        *)
(***************************************************************************)
EXTENDS Integers, Sequences, FiniteSets, TLC

\* ------------------------------------------------------------------ sets
SetMin(S) == CHOOSE x \in S : \A y \in S : x <= y
SetMax(S) == CHOOSE x \in S : \A y \in S : x >= y

\* ------------------------------------------------------------ characters
\* NBSP = " "
NBSP == 160
\* str.isspace() / regex \s, within the characters considered
IsSpace(c) == c \in (9..13) \cup (28..32) \cup {133, 160}
\* regex \w: alphanumerics and the underscore
IsWord(c) == c \in (48..57) \cup (65..90) \cup (97..122) \cup {95} \cup (1024..1119)
\* str.lower(), one character
LowerCh(c) ==
    IF c \in 65..90 THEN c + 32
    ELSE IF c \in 1040..1071 THEN c + 32
    ELSE IF c \in 1024..1039 THEN c + 80
    ELSE c
\* str.lower()
Lower(s) == [i \in 1..Len(s) |-> LowerCh(s[i])]
\* str.replace(a, b) for single characters a, b
ReplaceCh(s, a, b) == [i \in 1..Len(s) |-> IF s[i] = a THEN b ELSE s[i]]
\* str.strip()
Strip(s) ==
    LET keep == {i \in 1..Len(s) : ~IsSpace(s[i])}
    IN  IF keep = {} THEN <<>> ELSE SubSeq(s, SetMin(keep), SetMax(keep))

\* PUNCT_RE = [.,;:!?'"“”«»\(\)\[\]{}]
PUNCT_RE == {46, 44, 59, 58, 33, 63, 39, 34, 8220, 8221, 171, 187, 40, 41, 91, 93, 123, 125}
\* DASH_RE = [–—−]
DASH_RE == {8211, 8212, 8722}
\* the class [0-9a-zа-яё\s-] under re.IGNORECASE (NON_ALNUM_RE negates it)
IsAlnumClass(c) ==
    \/ c \in (48..57) \cup (97..122) \cup (65..90)
    \/ c \in (1072..1103) \cup (1040..1071) \cup {1105, 1025}
    \/ IsSpace(c)
    \/ c = 45

\* re.sub of a one-character class by a character
SubClass(s, InClass(_), b) == [i \in 1..Len(s) |-> IF InClass(s[i]) THEN b ELSE s[i]]
\* re.sub(CLASS+, " ", s): every maximal run of the class becomes one space
SubRuns(s, InClass(_)) ==
    LET t == [i \in 1..Len(s) |->
                [c |-> s[i], in |-> InClass(s[i]),
                 first |-> (i = 1) \/ ~InClass(s[i - 1])]]
        keep(e) == ~e.in \/ e.first
        u == SelectSeq(t, keep)
    IN  [i \in 1..Len(u) |-> IF u[i].in THEN 32 ELSE u[i].c]
\* MULTISPACE_RE.sub(" ", s)
MULTISPACE_sub(s) == SubRuns(s, IsSpace)

InPunct(c) == c \in PUNCT_RE
InDash(c) == c \in DASH_RE
NotAlnumClass(c) == ~IsAlnumClass(c)

\* s.replace("ё", "е").lower(): the replacement sees only the lower-case letter
FoldYo(s) == Lower(ReplaceCh(s, 1105, 1077))

norm_text(s) ==
    LET s1 == Strip(ReplaceCh(s, NBSP, 32))
        s2 == SubClass(s1, InDash, 45)
        s3 == SubClass(s2, InPunct, 32)
        s4 == SubRuns(s3, NotAlnumClass)
        s5 == FoldYo(s4)
    IN  Strip(MULTISPACE_sub(s5))

\* ------------------------------------------------- regular expressions
\* A pattern \bE1\s+E2...\s+En\b is a sequence of elements; an element is
\* a literal, optionally followed by one character of a class ([ао]?),
\* optionally followed by \w*.
Word(lit) == <<[lit |-> lit, opt |-> {}, star |-> FALSE]>>
WordOpt(lit, opt) == <<[lit |-> lit, opt |-> opt, star |-> FALSE]>>
Pfx(lit) == <<[lit |-> lit, opt |-> {}, star |-> TRUE]>>

\* the position after the longest run of \w (of \s) that starts at i
WordEnd(s, i) == SetMin({j \in i..(Len(s) + 1) : j = Len(s) + 1 \/ ~IsWord(s[j])})
SpaceEnd(s, i) == SetMin({j \in i..(Len(s) + 1) : j = Len(s) + 1 \/ ~IsSpace(s[j])})
\* \b at position i (between s[i-1] and s[i])
IsBoundary(s, i) ==
    LET before == i > 1 /\ i - 1 <= Len(s) /\ IsWord(s[i - 1])
        after == i >= 1 /\ i <= Len(s) /\ IsWord(s[i])
    IN  before # after
\* the literal lit at position i; ci: under re.IGNORECASE
HasLit(s, i, lit, ci) ==
    /\ i >= 1
    /\ i + Len(lit) - 1 <= Len(s)
    /\ LET part == SubSeq(s, i, i + Len(lit) - 1)
       IN  IF ci THEN Lower(part) = Lower(lit) ELSE part = lit
\* one element at position i: the position after it, or 0
MatchElem(s, i, e, ci) ==
    IF ~HasLit(s, i, e.lit, ci) THEN 0
    ELSE LET j == i + Len(e.lit)
             j2 == IF j <= Len(s) /\ (IF ci THEN LowerCh(s[j]) ELSE s[j]) \in e.opt
                   THEN j + 1 ELSE j
         IN  IF e.star THEN WordEnd(s, j2) ELSE j2
\* elements k.. of pattern p at position i, up to the closing \b
RECURSIVE MatchFrom(_, _, _, _, _)
MatchFrom(s, i, p, k, ci) ==
    LET e == MatchElem(s, i, p[k], ci)
    IN  IF e = 0 THEN 0
        ELSE IF k = Len(p) THEN (IF IsBoundary(s, e) THEN e ELSE 0)
        ELSE LET sp == SpaceEnd(s, e)
             IN  IF sp = e THEN 0 ELSE MatchFrom(s, sp, p, k + 1, ci)
\* \b p \b at position i: the position after the match, or 0
MatchPat(s, i, p, ci) == IF IsBoundary(s, i) THEN MatchFrom(s, i, p, 1, ci) ELSE 0
\* re.sub(p, " ", s): leftmost matches, left to right, not overlapping
RECURSIVE SubPatFrom(_, _, _, _)
SubPatFrom(s, i, p, ci) ==
    LET starts == {j \in i..Len(s) : MatchPat(s, j, p, ci) # 0}
    IN  IF starts = {} THEN SubSeq(s, i, Len(s))
        ELSE LET j == SetMin(starts)
             IN  SubSeq(s, i, j - 1) \o <<32>> \o SubPatFrom(s, MatchPat(s, j, p, ci), p, ci)
SubPat(s, p, ci) == SubPatFrom(s, 1, p, ci)

STOP_PHRASES_RE == <<
    \* \bфедеральное\b
    Word(<<1092, 1077, 1076, 1077, 1088, 1072, 1083, 1100, 1085, 1086, 1077>>),
    \* \bгосударственное\b
    Word(<<1075, 1086, 1089, 1091, 1076, 1072, 1088, 1089, 1090, 1074, 1077, 1085, 1085, 1086, 1077>>),
    \* \bбюджетное\b
    Word(<<1073, 1102, 1076, 1078, 1077, 1090, 1085, 1086, 1077>>),
    \* \bавтономное\b
    Word(<<1072, 1074, 1090, 1086, 1085, 1086, 1084, 1085, 1086, 1077>>),
    \* \bказенное\b
    Word(<<1082, 1072, 1079, 1077, 1085, 1085, 1086, 1077>>),
    \* \bчастное\b
    Word(<<1095, 1072, 1089, 1090, 1085, 1086, 1077>>),
    \* \bнекоммерческ\w*\b
    Pfx(<<1085, 1077, 1082, 1086, 1084, 1084, 1077, 1088, 1095, 1077, 1089, 1082>>),
    \* \bобразовательн\w*\b
    Pfx(<<1086, 1073, 1088, 1072, 1079, 1086, 1074, 1072, 1090, 1077, 1083, 1100, 1085>>),
    \* \bучреждени\w*\b
    Pfx(<<1091, 1095, 1088, 1077, 1078, 1076, 1077, 1085, 1080>>),
    \* \bорганизаци\w*\b
    Pfx(<<1086, 1088, 1075, 1072, 1085, 1080, 1079, 1072, 1094, 1080>>),
    \* \bвысшего\s+образования\b
    Word(<<1074, 1099, 1089, 1096, 1077, 1075, 1086>>) \o Word(<<1086, 1073, 1088, 1072, 1079, 1086, 1074, 1072, 1085, 1080, 1103>>),
    \* \bпрофессионального\s+образования\b
    Word(<<1087, 1088, 1086, 1092, 1077, 1089, 1089, 1080, 1086, 1085, 1072, 1083, 1100, 1085, 1086, 1075, 1086>>) \o Word(<<1086, 1073, 1088, 1072, 1079, 1086, 1074, 1072, 1085, 1080, 1103>>),
    \* \bво\b
    Word(<<1074, 1086>>),
    \* \bфгбоу\b
    Word(<<1092, 1075, 1073, 1086, 1091>>),
    \* \bфгаоу\b
    Word(<<1092, 1075, 1072, 1086, 1091>>),
    \* \bаоу\b
    Word(<<1072, 1086, 1091>>),
    \* \bоу\b
    Word(<<1086, 1091>>),
    \* \bвоенное\b
    Word(<<1074, 1086, 1077, 1085, 1085, 1086, 1077>>),
    \* \bвоенная\b
    Word(<<1074, 1086, 1077, 1085, 1085, 1072, 1103>>),
    \* \bвооруженных\b
    Word(<<1074, 1086, 1086, 1088, 1091, 1078, 1077, 1085, 1085, 1099, 1093>>),
    \* \bсил\b
    Word(<<1089, 1080, 1083>>),
    \* \bроссии\b
    Word(<<1088, 1086, 1089, 1089, 1080, 1080>>),
    \* \bгород[ао]?\s+москвы\b
    WordOpt(<<1075, 1086, 1088, 1086, 1076>>, {1072, 1086}) \o Word(<<1084, 1086, 1089, 1082, 1074, 1099>>),
    \* \bнауки\b
    Word(<<1085, 1072, 1091, 1082, 1080>>),
    \* \bфедеральный\s+исследовательский\s+центр\b
    Word(<<1092, 1077, 1076, 1077, 1088, 1072, 1083, 1100, 1085, 1099, 1081>>) \o Word(<<1080, 1089, 1089, 1083, 1077, 1076, 1086, 1074, 1072, 1090, 1077, 1083, 1100, 1089, 1082, 1080, 1081>>) \o Word(<<1094, 1077, 1085, 1090, 1088>>),
    \* \bордена\b
    Word(<<1086, 1088, 1076, 1077, 1085, 1072>>),
    \* \bтрудового\b
    Word(<<1090, 1088, 1091, 1076, 1086, 1074, 1086, 1075, 1086>>),
    \* \bкрасного\b
    Word(<<1082, 1088, 1072, 1089, 1085, 1086, 1075, 1086>>),
    \* \bзнамени\b
    Word(<<1079, 1085, 1072, 1084, 1077, 1085, 1080>>)
>>

\* for rx in STOP_PHRASES_RE: t = re.sub(rx, " ", t, flags=re.IGNORECASE)
RECURSIVE SubAll(_, _, _)
SubAll(t, pats, k) ==
    IF k > Len(pats) THEN t
    ELSE LET r == SubPat(t, pats[k], TRUE)
         \* (the test makes TLC compute r before it goes on)
         IN  IF Len(r) >= 0 THEN SubAll(r, pats, k + 1) ELSE r

strip_stop_phrases(s) == Strip(MULTISPACE_sub(SubAll(norm_text(s), STOP_PHRASES_RE, 1)))

\* \bминистерств\w*\b
MINISTRY_HEAD ==
    Pfx(<<1084, 1080, 1085, 1080, 1089, 1090, 1077, 1088, 1089, 1090, 1074>>)
\* \bроссийск\w*\s+федераци\w*\b
MINISTRY_TAIL ==
    Pfx(<<1088, 1086, 1089, 1089, 1080, 1081, 1089, 1082>>)
        \o Pfx(<<1092, 1077, 1076, 1077, 1088, 1072, 1094, 1080>>)
\* \bминистерств\w*\b.*?\bроссийск\w*\s+федераци\w*\b at position i: the
\* position after the shortest match, or 0 ("." does not match a newline)
MatchMinistry(s, i) ==
    LET e1 == MatchPat(s, i, MINISTRY_HEAD, FALSE)
        nl == {j \in 1..Len(s) : s[j] = 10}
        tails == {j \in e1..Len(s) :
                    /\ MatchPat(s, j, MINISTRY_TAIL, FALSE) # 0
                    /\ \A n \in nl : ~(e1 <= n /\ n < j)}
    IN  IF e1 = 0 \/ tails = {} THEN 0
        ELSE MatchPat(s, SetMin(tails), MINISTRY_TAIL, FALSE)
RECURSIVE SubMinistryFrom(_, _)
SubMinistryFrom(s, i) ==
    LET starts == {j \in i..Len(s) : MatchMinistry(s, j) # 0}
    IN  IF starts = {} THEN SubSeq(s, i, Len(s))
        ELSE LET j == SetMin(starts)
             IN  SubSeq(s, i, j - 1) \o <<32>> \o SubMinistryFrom(s, MatchMinistry(s, j))

official_key(name) ==
    Strip(MULTISPACE_sub(SubMinistryFrom(strip_stop_phrases(name), 1)))

agg_key(name) == strip_stop_phrases(name)

\* re.sub(r"\b(p1|p2|...)\b", " ", s): the alternatives in order
MatchAlt(s, i, pats, ci) ==
    LET hit == {k \in 1..Len(pats) : MatchPat(s, i, pats[k], ci) # 0}
    IN  IF hit = {} THEN 0 ELSE MatchPat(s, i, pats[SetMin(hit)], ci)
RECURSIVE SubAltFrom(_, _, _, _)
SubAltFrom(s, i, pats, ci) ==
    LET starts == {j \in i..Len(s) : MatchAlt(s, j, pats, ci) # 0}
    IN  IF starts = {} THEN SubSeq(s, i, Len(s))
        ELSE LET j == SetMin(starts)
             IN  SubSeq(s, i, j - 1) \o <<32>> \o SubAltFrom(s, MatchAlt(s, j, pats, ci), pats, ci)
\* re.search(r"\b(p1|p2|...)\b", s)
SearchAlt(s, pats, ci) == \E j \in 1..Len(s) : MatchAlt(s, j, pats, ci) # 0
\* lit in s
Contains(s, lit) == \E i \in 1..Len(s) : HasLit(s, i, lit, FALSE)

\* str.split(): the maximal runs of non-whitespace, in order
Split(s) ==
    LET starts == {i \in 1..Len(s) : ~IsSpace(s[i]) /\ (i = 1 \/ IsSpace(s[i - 1]))}
        nth(k) == CHOOSE i \in starts : Cardinality({j \in starts : j < i}) = k - 1
        stop(i) == SetMin({j \in i..(Len(s) + 1) : j = Len(s) + 1 \/ IsSpace(s[j])})
    IN  [k \in 1..Cardinality(starts) |-> SubSeq(s, nth(k), stop(nth(k)) - 1)]
\* " ".join(words)
RECURSIVE Join(_)
Join(words) ==
    IF words = <<>> THEN <<>>
    ELSE IF Len(words) = 1 THEN words[1]
    ELSE words[1] \o <<32>> \o Join(Tail(words))
Range(f) == {f[i] : i \in DOMAIN f}

\* ------------------------------------------- branch / subunit heuristics
\* BRANCH_RE = \b(филиал|представительств\w*|отделени\w*)\b, IGNORECASE
BRANCH_RE == <<
    Word(<<1092, 1080, 1083, 1080, 1072, 1083>>),
    Pfx(<<1087, 1088, 1077, 1076, 1089, 1090, 1072, 1074, 1080, 1090, 1077, 1083, 1100, 1089, 1090, 1074>>),
    Pfx(<<1086, 1090, 1076, 1077, 1083, 1077, 1085, 1080>>)
>>
\* the words of SUBUNIT_RE = ^\s*(факультет|школа|кафедра|институт)\b
SUBUNIT_RE == <<
    <<1092, 1072, 1082, 1091, 1083, 1100, 1090, 1077, 1090>>,
    <<1096, 1082, 1086, 1083, 1072>>,
    <<1082, 1072, 1092, 1077, 1076, 1088, 1072>>,
    <<1080, 1085, 1089, 1090, 1080, 1090, 1091, 1090>>
>>

is_branch_name(s) == SearchAlt(s, BRANCH_RE, TRUE)

looks_like_subunit(s) ==
    LET sl == Lower(s)
        i == SpaceEnd(sl, 1)
        universiteta == <<1091, 1085, 1080, 1074, 1077, 1088, 1089, 1080, 1090, 1077, 1090, 1072>>
    IN  \/ \E k \in 1..Len(SUBUNIT_RE) :
              /\ HasLit(sl, i, SUBUNIT_RE[k], TRUE)
              /\ IsBoundary(sl, i + Len(SUBUNIT_RE[k]))
        \/ /\ Contains(sl, universiteta)
           /\ \E k \in {1, 2, 4} : Contains(sl, SUBUNIT_RE[k])

\* ----------------------------------------------------------- fuzzy guard
\* generic institutional words, ignored by the guard
GENERIC_TOKENS == {
    \* университет
    <<1091, 1085, 1080, 1074, 1077, 1088, 1089, 1080, 1090, 1077, 1090>>,
    \* институт
    <<1080, 1085, 1089, 1090, 1080, 1090, 1091, 1090>>,
    \* академия
    <<1072, 1082, 1072, 1076, 1077, 1084, 1080, 1103>>,
    \* школа
    <<1096, 1082, 1086, 1083, 1072>>,
    \* училище
    <<1091, 1095, 1080, 1083, 1080, 1097, 1077>>,
    \* колледж
    <<1082, 1086, 1083, 1083, 1077, 1076, 1078>>,
    \* государственный
    <<1075, 1086, 1089, 1091, 1076, 1072, 1088, 1089, 1090, 1074, 1077, 1085, 1085, 1099, 1081>>,
    \* федеральный
    <<1092, 1077, 1076, 1077, 1088, 1072, 1083, 1100, 1085, 1099, 1081>>,
    \* национальный
    <<1085, 1072, 1094, 1080, 1086, 1085, 1072, 1083, 1100, 1085, 1099, 1081>>,
    \* исследовательский
    <<1080, 1089, 1089, 1083, 1077, 1076, 1086, 1074, 1072, 1090, 1077, 1083, 1100, 1089, 1082, 1080, 1081>>,
    \* высший
    <<1074, 1099, 1089, 1096, 1080, 1081>>,
    \* высшего
    <<1074, 1099, 1089, 1096, 1077, 1075, 1086>>,
    \* образования
    <<1086, 1073, 1088, 1072, 1079, 1086, 1074, 1072, 1085, 1080, 1103>>,
    \* учреждение
    <<1091, 1095, 1088, 1077, 1078, 1076, 1077, 1085, 1080, 1077>>,
    \* автономный
    <<1072, 1074, 1090, 1086, 1085, 1086, 1084, 1085, 1099, 1081>>,
    \* бюджетный
    <<1073, 1102, 1076, 1078, 1077, 1090, 1085, 1099, 1081>>,
    \* казенный
    <<1082, 1072, 1079, 1077, 1085, 1085, 1099, 1081>>,
    \* частный
    <<1095, 1072, 1089, 1090, 1085, 1099, 1081>>,
    \* некоммерческий
    <<1085, 1077, 1082, 1086, 1084, 1084, 1077, 1088, 1095, 1077, 1089, 1082, 1080, 1081>>,
    \* московский
    <<1084, 1086, 1089, 1082, 1086, 1074, 1089, 1082, 1080, 1081>>,
    \* российский
    <<1088, 1086, 1089, 1089, 1080, 1081, 1089, 1082, 1080, 1081>>,
    \* рф
    <<1088, 1092>>,
    \* имени
    <<1080, 1084, 1077, 1085, 1080>>,
    \* министерства
    <<1084, 1080, 1085, 1080, 1089, 1090, 1077, 1088, 1089, 1090, 1074, 1072>>,
    \* российской
    <<1088, 1086, 1089, 1089, 1080, 1081, 1089, 1082, 1086, 1081>>,
    \* федерации
    <<1092, 1077, 1076, 1077, 1088, 1072, 1094, 1080, 1080>>
}

\* abbreviations that identify one institution
ANCHOR_TOKENS == {
    \* ранхигс
    <<1088, 1072, 1085, 1093, 1080, 1075, 1089>>,
    \* мэи
    <<1084, 1101, 1080>>,
    \* миэт
    <<1084, 1080, 1101, 1090>>,
    \* мгюа
    <<1084, 1075, 1102, 1072>>,
    \* мгу
    <<1084, 1075, 1091>>,
    \* вшэ
    <<1074, 1096, 1101>>,
    \* мфти
    <<1084, 1092, 1090, 1080>>,
    \* мифи
    <<1084, 1080, 1092, 1080>>,
    \* рудн
    <<1088, 1091, 1076, 1085>>,
    \* гцолифк
    <<1075, 1094, 1086, 1083, 1080, 1092, 1082>>
}

_tokenize_key(s) == Split(norm_text(s))

_significant_tokens(key) ==
    {x \in Range(_tokenize_key(key)) : x \notin GENERIC_TOKENS /\ Len(x) >= 3}

\* the guard with the threshold of the single shared token at 96
GuardThreshold96(query_key, best_key, score) ==
    LET q_sig == _significant_tokens(query_key)
        b_sig == _significant_tokens(best_key)
        inter == Cardinality(q_sig \cap b_sig)
        min_inter == IF score >= 96 THEN 1 ELSE 2
        b_anchors == b_sig \cap ANCHOR_TOKENS
        q_anchors == q_sig \cap ANCHOR_TOKENS
    IN  IF inter < min_inter THEN FALSE
        ELSE IF b_anchors # {} /\ ~(b_anchors \subseteq q_anchors) THEN FALSE
        ELSE TRUE

\* the guard that rejects every candidate with an anchor
GuardRejectsAnchors(query_key, best_key, score) ==
    LET q_sig == _significant_tokens(query_key)
        b_sig == _significant_tokens(best_key)
        inter == Cardinality(q_sig \cap b_sig)
        min_inter == IF score >= 97 THEN 1 ELSE 2
        b_anchors == b_sig \cap ANCHOR_TOKENS
    IN  IF inter < min_inter THEN FALSE
        ELSE IF b_anchors # {} THEN FALSE
        ELSE TRUE

\* a score is a number in 0..100; the model takes whole numbers
_passes_fuzzy_guard(query_key, best_key, score) ==
    LET q_sig == _significant_tokens(query_key)
        b_sig == _significant_tokens(best_key)
        inter == Cardinality(q_sig \cap b_sig)
        min_inter == IF score >= 97 THEN 1 ELSE 2
        b_anchors == b_sig \cap ANCHOR_TOKENS
        q_anchors == q_sig \cap ANCHOR_TOKENS
    IN  IF inter < min_inter THEN FALSE
        ELSE IF b_anchors # {} /\ ~(b_anchors \subseteq q_anchors) THEN FALSE
        ELSE TRUE

\* ------------------------------------------------------ official aliases
\* stem\w+\s+ at position i (IGNORECASE): the position after it, or 0
MatchStem(s, i, stem) ==
    IF ~HasLit(s, i, stem, TRUE) THEN 0
    ELSE LET j == i + Len(stem)
             w == WordEnd(s, j)
             sp == SpaceEnd(s, w)
         IN  IF w = j \/ sp = w THEN 0 ELSE sp
\* lit\s+ at position i (IGNORECASE): the position after it, or 0
MatchLitSp(s, i, lit) ==
    IF ~HasLit(s, i, lit, TRUE) THEN 0
    ELSE LET j == i + Len(lit)
             sp == SpaceEnd(s, j)
         IN  IF sp = j THEN 0 ELSE sp
\* LEGAL_PREFIX_RE is a sequence of stem\w+\s+; the stems in order, the
\* alternatives of one place as a set:
\*   федеральн, государственн, (автономн|бюджетн|казенн), образовательн, учрежден
LEGAL_STEMS == <<
    {<<1092, 1077, 1076, 1077, 1088, 1072, 1083, 1100, 1085>>},
    {<<1075, 1086, 1089, 1091, 1076, 1072, 1088, 1089, 1090, 1074, 1077, 1085, 1085>>},
    {<<1072, 1074, 1090, 1086, 1085, 1086, 1084, 1085>>,
     <<1073, 1102, 1076, 1078, 1077, 1090, 1085>>,
     <<1082, 1072, 1079, 1077, 1085, 1085>>},
    {<<1086, 1073, 1088, 1072, 1079, 1086, 1074, 1072, 1090, 1077, 1083, 1100, 1085>>},
    {<<1091, 1095, 1088, 1077, 1078, 1076, 1077, 1085>>}
>>
\* the stems from place k on at position i: the position after them, or 0
RECURSIVE MatchStems(_, _, _)
MatchStems(s, i, k) ==
    IF k > Len(LEGAL_STEMS) THEN i
    ELSE LET ends == {MatchStem(s, i, stem) : stem \in LEGAL_STEMS[k]} \ {0}
         IN  IF ends = {} THEN 0 ELSE MatchStems(s, SetMax(ends), k + 1)
\* (высшего\s+образования\s+)? at position p: the position after it, p when
\* it is absent
LegalTail(s, p) ==
    LET q == MatchLitSp(s, p, <<1074, 1099, 1089, 1096, 1077, 1075, 1086>>)
        r == MatchLitSp(s, q, <<1086, 1073, 1088, 1072, 1079, 1086, 1074, 1072, 1085, 1080, 1103>>)
    IN  IF p = 0 THEN 0 ELSE IF q = 0 THEN p ELSE IF r = 0 THEN p ELSE r
\* LEGAL_PREFIX_RE at the start of s: the position after the prefix, or 0
\*   ^(федеральн\w+\s+государственн\w+\s+(автономн\w+|бюджетн\w+|казенн\w+)\s+
\*     образовательн\w+\s+учрежден\w+\s+(высшего\s+образования\s+)?)
LEGAL_PREFIX_RE(s) == LegalTail(s, MatchStems(s, 1, 1))
\* s from position p on, all of s for p = 0
DropBefore(s, p) == IF p = 0 THEN s ELSE SubSeq(s, p, Len(s))
\* LEGAL_PREFIX_RE.sub("", s)
LEGAL_PREFIX_sub(s) == DropBefore(s, LEGAL_PREFIX_RE(s))

\* IMENI_RE.sub("", s), IMENI_RE = \bим(ени)?\b.*$ (IGNORECASE): the text
\* from the first word "им" or "имени" that no newline follows, but for a
\* newline that ends s, is removed up to the end, or up to that newline
IMENI_sub(s) ==
    LET im == <<1080, 1084>>
        imeni == <<1080, 1084, 1077, 1085, 1080>>
        head(j) == IF HasLit(s, j, imeni, TRUE) /\ IsBoundary(s, j + 5) THEN j + 5
                   ELSE IF HasLit(s, j, im, TRUE) /\ IsBoundary(s, j + 2) THEN j + 2
                   ELSE 0
        starts == {j \in 1..Len(s) :
                     /\ IsBoundary(s, j)
                     /\ head(j) # 0
                     /\ \A n \in head(j)..(Len(s) - 1) : s[n] # 10}
    IN  IF starts = {} THEN s
        ELSE SubSeq(s, 1, SetMin(starts) - 1)
                 \o (IF s[Len(s)] = 10 THEN <<10>> ELSE <<>>)

\* the groups of open ([^close]{2,80}) close found by finditer, stripped
RECURSIVE FindGroups(_, _, _, _)
FindGroups(s, i, open, close) ==
    LET stop(j) == SetMin({n \in (j + 1)..(Len(s) + 1) : n = Len(s) + 1 \/ s[n] \in close})
        ok(j) == /\ s[j] \in open
                 /\ stop(j) <= Len(s)
                 /\ stop(j) - (j + 1) >= 2
                 /\ stop(j) - (j + 1) <= 80
        starts == {j \in i..Len(s) : ok(j)}
    IN  IF starts = {} THEN <<>>
        ELSE LET j == SetMin(starts)
             IN  <<Strip(SubSeq(s, j + 1, stop(j) - 1))>> \o FindGroups(s, stop(j) + 1, open, close)
\* QUOTES_RE = [«"]([^»"]{2,80})[»"]
QUOTES_RE(s) == FindGroups(s, 1, {171, 34}, {187, 34})
\* PARENS_RE = \(([^)]{2,80})\)
PARENS_RE(s) == FindGroups(s, 1, {40}, {41})

\* re.sub(r"\([^)]*\)", " ", s)
RECURSIVE SubParensFrom(_, _)
SubParensFrom(s, i) ==
    LET close(j) == {n \in (j + 1)..Len(s) : s[n] = 41}
        starts == {j \in i..Len(s) : s[j] = 40 /\ close(j) # {}}
    IN  IF starts = {} THEN SubSeq(s, i, Len(s))
        ELSE LET j == SetMin(starts)
             IN  SubSeq(s, i, j - 1) \o <<32>> \o SubParensFrom(s, SetMin(close(j)) + 1)

\* \b(российск\w*\s+федераци\w*|рф)\b
RF_RE == <<
    Pfx(<<1088, 1086, 1089, 1089, 1080, 1081, 1089, 1082>>)
        \o Pfx(<<1092, 1077, 1076, 1077, 1088, 1072, 1094, 1080>>),
    Word(<<1088, 1092>>)
>>

\* an alias key must not be one of these words alone
FORBIDDEN_ALIAS_KEYS == {
    \* университет
    <<1091, 1085, 1080, 1074, 1077, 1088, 1089, 1080, 1090, 1077, 1090>>,
    \* институт
    <<1080, 1085, 1089, 1090, 1080, 1090, 1091, 1090>>,
    \* академия
    <<1072, 1082, 1072, 1076, 1077, 1084, 1080, 1103>>,
    \* школа
    <<1096, 1082, 1086, 1083, 1072>>,
    \* училище
    <<1091, 1095, 1080, 1083, 1080, 1097, 1077>>,
    \* колледж
    <<1082, 1086, 1083, 1083, 1077, 1076, 1078>>
}

\* over-generic two-word keys (local to _keep_alias)
GENERIC_BAD == {
    \* московский университет
    <<1084, 1086, 1089, 1082, 1086, 1074, 1089, 1082, 1080, 1081, 32, 1091, 1085, 1080, 1074, 1077, 1088, 1089, 1080, 1090, 1077, 1090>>,
    \* российский университет
    <<1088, 1086, 1089, 1089, 1080, 1081, 1089, 1082, 1080, 1081, 32, 1091, 1085, 1080, 1074, 1077, 1088, 1089, 1080, 1090, 1077, 1090>>,
    \* московский институт
    <<1084, 1086, 1089, 1082, 1086, 1074, 1089, 1082, 1080, 1081, 32, 1080, 1085, 1089, 1090, 1080, 1090, 1091, 1090>>,
    \* российский институт
    <<1088, 1086, 1089, 1089, 1080, 1081, 1089, 1082, 1080, 1081, 32, 1080, 1085, 1089, 1090, 1080, 1090, 1091, 1090>>,
    \* московская академия
    <<1084, 1086, 1089, 1082, 1086, 1074, 1089, 1082, 1072, 1103, 32, 1072, 1082, 1072, 1076, 1077, 1084, 1080, 1103>>,
    \* российская академия
    <<1088, 1086, 1089, 1089, 1080, 1081, 1089, 1082, 1072, 1103, 32, 1072, 1082, 1072, 1076, 1077, 1084, 1080, 1103>>
}

_compact(s) == Strip(MULTISPACE_sub(Strip(ReplaceCh(s, NBSP, 32))))

\* _keep_alias from "if k in FORBIDDEN_ALIAS_KEYS" on, for the key k
KeepKey(k) ==
    LET toks == Split(k)
    IN  IF k = <<>> THEN FALSE
        ELSE IF k \in FORBIDDEN_ALIAS_KEYS THEN FALSE
        ELSE IF Len(toks) <= 2 /\ toks # <<>> /\ toks[Len(toks)] \in FORBIDDEN_ALIAS_KEYS THEN FALSE
        ELSE IF k \in GENERIC_BAD THEN FALSE
        ELSE TRUE
\* _keep_alias after a = _compact(raw_alias)
KeepCompact(a) ==
    IF a = <<>> \/ Len(a) < 8 THEN FALSE ELSE KeepKey(official_key(a))
_keep_alias(raw_alias) == KeepCompact(_compact(raw_alias))

\* add(x) after x = _compact(x)
AddCompact(cand, x) == IF _keep_alias(x) THEN Append(cand, x) ELSE cand
\* add(x): x = _compact(x); if _keep_alias(x): cand.append(x)
add(cand, x) == AddCompact(cand, _compact(x))
\* add(x) for the elements x of xs in turn
RECURSIVE AddAll(_, _)
AddAll(cand, xs) ==
    IF xs = <<>> THEN cand ELSE AddAll(add(cand, xs[1]), Tail(xs))

\* one pass of "for q in quoted" after q2 = _compact(q): what it hands to add()
GroupPair(q2, core) ==
    IF q2 = <<>> THEN <<>>
    ELSE (IF core # <<>> THEN <<core \o <<32>> \o q2>> ELSE <<>>) \o <<q2>>
\* the loop over the groups: what it hands to add(), in order
RECURSIVE GroupAdds(_, _)
GroupAdds(groups, core) ==
    IF groups = <<>> THEN <<>>
    ELSE GroupPair(_compact(groups[1]), core) \o GroupAdds(Tail(groups), core)

\* [«»"()] and [«»"]
IsQuoteOrParen(c) == c \in {171, 187, 34, 40, 41}
IsQuote(c) == c \in {171, 187, 34}
\* core, from nolegal = LEGAL_PREFIX_RE.sub("", base)
AliasCore(nolegal) ==
    _compact(SubClass(SubParensFrom(_compact(nolegal), 1), IsQuote, 32))
\* steps A to D: what they hand to add(), in order
AliasAdds(base, b1, core) ==
    <<base, b1, Strip(IMENI_sub(b1)), SubClass(base, IsQuoteOrParen, 32)>>
        \o GroupAdds(QUOTES_RE(base), core)
        \o GroupAdds(PARENS_RE(base), core)
\* step E that appends the variants without the filter of add()
AddNoRFUnfiltered(cand) ==
    cand \o [i \in 1..Len(cand) |-> _compact(SubAltFrom(cand[i], 1, RF_RE, TRUE))]
\* step E: for x in list(cand): add(re.sub(RF_RE, " ", x, flags=re.IGNORECASE))
AddNoRF(cand) ==
    AddAll(cand, [i \in 1..Len(cand) |-> SubAltFrom(cand[i], 1, RF_RE, TRUE)])

\* string comparison of Python: by code points, a proper prefix first
StrLess(a, b) ==
    LET n == IF Len(a) < Len(b) THEN Len(a) ELSE Len(b)
        d == {i \in 1..n : a[i] # b[i]}
    IN  IF d = {} THEN Len(a) < Len(b) ELSE a[SetMin(d)] < b[SetMin(d)]
\* the sort key (len(x), x.lower())
AliasLess(x, y) ==
    \/ Len(x) < Len(y)
    \/ Len(x) = Len(y) /\ StrLess(Lower(x), Lower(y))
\* keep the first of the candidates that are equal in lower case
UniqueLower(cand) ==
    LET t == [i \in 1..Len(cand) |->
                [x |-> cand[i],
                 dup |-> \E j \in 1..(i - 1) : Lower(cand[j]) = Lower(cand[i])]]
        keep(e) == ~e.dup
        u == SelectSeq(t, keep)
    IN  [i \in 1..Len(u) |-> u[i].x]
\* out.sort(key=...): the keys of out are pairwise different
SortAliases(out) ==
    LET S == Range(out)
    IN  [k \in 1..Len(out) |->
            CHOOSE x \in S : Cardinality({y \in S : AliasLess(y, x)}) = k - 1]

\* build_official_aliases for a base that is not empty
AliasesOfBase(base, nolegal) ==
    SortAliases(UniqueLower(AddNoRF(
        AddAll(<<>>, AliasAdds(base, Strip(nolegal), AliasCore(nolegal))))))
build_official_aliases(org_name) ==
    LET base == Strip(ReplaceCh(org_name, NBSP, 32))
    IN  IF base = <<>> THEN <<>> ELSE AliasesOfBase(base, LEGAL_PREFIX_sub(base))

\* ---------------------------------------------------------------- inputs
\* organization names of the registry (universities.unique.json)
\* "Федеральное государственное бюджетное образовательное учреждение высшего образования «Московский государственный университет» имени М.В. Ломоносова"
N_MSU ==
    <<1060, 1077, 1076, 1077, 1088, 1072, 1083, 1100, 1085, 1086, 1077, 32, 1075, 1086, 1089,
    1091, 1076, 1072, 1088, 1089, 1090, 1074, 1077, 1085, 1085, 1086, 1077, 32, 1073, 1102, 1076,
    1078, 1077, 1090, 1085, 1086, 1077, 32, 1086, 1073, 1088, 1072, 1079, 1086, 1074, 1072, 1090,
    1077, 1083, 1100, 1085, 1086, 1077, 32, 1091, 1095, 1088, 1077, 1078, 1076, 1077, 1085, 1080,
    1077, 32, 1074, 1099, 1089, 1096, 1077, 1075, 1086, 32, 1086, 1073, 1088, 1072, 1079, 1086,
    1074, 1072, 1085, 1080, 1103, 32, 171, 1052, 1086, 1089, 1082, 1086, 1074, 1089, 1082, 1080,
    1081, 32, 1075, 1086, 1089, 1091, 1076, 1072, 1088, 1089, 1090, 1074, 1077, 1085, 1085, 1099,
    1081, 32, 1091, 1085, 1080, 1074, 1077, 1088, 1089, 1080, 1090, 1077, 1090, 187, 32, 1080,
    1084, 1077, 1085, 1080, 32, 1052, 46, 1042, 46, 32, 1051, 1086, 1084, 1086, 1085, 1086, 1089,
    1086, 1074, 1072>>

\* "ФГБОУ ВО «Российский университет транспорта» (РУТ МИИТ)"
N_RUT ==
    <<1060, 1043, 1041, 1054, 1059, 32, 1042, 1054, 32, 171, 1056, 1086, 1089, 1089, 1080, 1081,
    1089, 1082, 1080, 1081, 32, 1091, 1085, 1080, 1074, 1077, 1088, 1089, 1080, 1090, 1077, 1090,
    32, 1090, 1088, 1072, 1085, 1089, 1087, 1086, 1088, 1090, 1072, 187, 32, 40, 1056, 1059,
    1058, 32, 1052, 1048, 1048, 1058, 41>>

\* "Федеральное государственное бюджетное образовательное учреждение высшего образования"
N_BOILER ==
    <<1060, 1077, 1076, 1077, 1088, 1072, 1083, 1100, 1085, 1086, 1077, 32, 1075, 1086, 1089,
    1091, 1076, 1072, 1088, 1089, 1090, 1074, 1077, 1085, 1085, 1086, 1077, 32, 1073, 1102, 1076,
    1078, 1077, 1090, 1085, 1086, 1077, 32, 1086, 1073, 1088, 1072, 1079, 1086, 1074, 1072, 1090,
    1077, 1083, 1100, 1085, 1086, 1077, 32, 1091, 1095, 1088, 1077, 1078, 1076, 1077, 1085, 1080,
    1077, 32, 1074, 1099, 1089, 1096, 1077, 1075, 1086, 32, 1086, 1073, 1088, 1072, 1079, 1086,
    1074, 1072, 1085, 1080, 1103>>

\* "Военный университет Министерства обороны Российской Федерации"
N_MIN ==
    <<1042, 1086, 1077, 1085, 1085, 1099, 1081, 32, 1091, 1085, 1080, 1074, 1077, 1088, 1089,
      1080, 1090, 1077, 1090, 32, 1052, 1080, 1085, 1080, 1089, 1090, 1077, 1088, 1089, 1090,
      1074, 1072, 32, 1086, 1073, 1086, 1088, 1086, 1085, 1099, 32, 1056, 1086, 1089, 1089,
      1080, 1081, 1089, 1082, 1086, 1081, 32, 1060, 1077, 1076, 1077, 1088, 1072, 1094, 1080,
      1080>>

\* "МГУ имени Ломоносова"
S_MGU ==
    <<1052, 1043, 1059, 32, 1080, 1084, 1077, 1085, 1080, 32, 1051, 1086, 1084, 1086, 1085, 1086,
    1089, 1086, 1074, 1072>>

\* "Московский государственный университет им. М.В. Ломоносова"
S_MSU_IM ==
    <<1052, 1086, 1089, 1082, 1086, 1074, 1089, 1082, 1080, 1081, 32, 1075, 1086, 1089, 1091,
    1076, 1072, 1088, 1089, 1090, 1074, 1077, 1085, 1085, 1099, 1081, 32, 1091, 1085, 1080, 1074,
    1077, 1088, 1089, 1080, 1090, 1077, 1090, 32, 1080, 1084, 46, 32, 1052, 46, 1042, 46, 32,
    1051, 1086, 1084, 1086, 1085, 1086, 1089, 1086, 1074, 1072>>

\* "Московский государственный университет имени М.В. Ломоносова"
S_MSU ==
    <<1052, 1086, 1089, 1082, 1086, 1074, 1089, 1082, 1080, 1081, 32, 1075, 1086, 1089, 1091,
    1076, 1072, 1088, 1089, 1090, 1074, 1077, 1085, 1085, 1099, 1081, 32, 1091, 1085, 1080, 1074,
    1077, 1088, 1089, 1080, 1090, 1077, 1090, 32, 1080, 1084, 1077, 1085, 1080, 32, 1052, 46,
    1042, 46, 32, 1051, 1086, 1084, 1086, 1085, 1086, 1089, 1086, 1074, 1072>>

\* "Московский государственный университет геодезии и картографии"
S_MIIGAIK ==
    <<1052, 1086, 1089, 1082, 1086, 1074, 1089, 1082, 1080, 1081, 32, 1075, 1086, 1089, 1091,
    1076, 1072, 1088, 1089, 1090, 1074, 1077, 1085, 1085, 1099, 1081, 32, 1091, 1085, 1080, 1074,
    1077, 1088, 1089, 1080, 1090, 1077, 1090, 32, 1075, 1077, 1086, 1076, 1077, 1079, 1080, 1080,
    32, 1080, 32, 1082, 1072, 1088, 1090, 1086, 1075, 1088, 1072, 1092, 1080, 1080>>

\* "РУТ (МИИТ)"
S_RUT ==
    <<1056, 1059, 1058, 32, 40, 1052, 1048, 1048, 1058, 41>>

\* "Российский университет транспорта"
S_RUT_FULL ==
    <<1056, 1086, 1089, 1089, 1080, 1081, 1089, 1082, 1080, 1081, 32, 1091, 1085, 1080, 1074,
    1077, 1088, 1089, 1080, 1090, 1077, 1090, 32, 1090, 1088, 1072, 1085, 1089, 1087, 1086, 1088,
    1090, 1072>>

\* "ФГБОУ ВО"
S_FGBOU ==
    <<1060, 1043, 1041, 1054, 1059, 32, 1042, 1054>>

\* "МИИТ (РУТ)"
S_MIIT_RUT ==
    <<1052, 1048, 1048, 1058, 32, 40, 1056, 1059, 1058, 41>>

\* "миит (рут)"
S_MIIT_RUT_LC ==
    <<1084, 1080, 1080, 1090, 32, 40, 1088, 1091, 1090, 41>>

\* the sequences over A of length at most n
StringsUpTo(A, n) == UNION {[1..k -> A] : k \in 0..n}

\* bounds of the inputs
MaxRecords == 2
MaxNames == 1
MaxReorderRecords == 3

\* an item of the registry list: a dict (its fields) or some other JSON value
Dict(fields) == [type |-> "dict", val |-> fields]
OFFICIAL_ITEMS == {
    Dict([organization_name |-> N_MSU, id |-> 1]),
    Dict([organization_name |-> N_RUT, id |-> 2]),
    Dict([organization_name |-> N_BOILER, id |-> 3]),
    Dict([id |-> 4]),
    [type |-> "str", val |-> N_RUT]
}
\* the items of the registries of one record whose fuzzy calls are kept
TRACED_ITEMS ==
    OFFICIAL_ITEMS \cup {Dict([organization_name |-> N_MIN, id |-> 5]),
                         Dict([organization_name |-> N_MIN, id |-> 6,
                               match |-> [note |-> "manual"]])}
\* the items of the registries that are run in two orders: two records of
\* one query each, a record without a name and an item that is no dict
REORDER_ITEMS == {
    Dict([organization_name |-> N_MIN, id |-> 5]),
    Dict([organization_name |-> S_RUT_FULL, id |-> 7]),
    Dict([id |-> 4]),
    [type |-> "str", val |-> N_RUT]
}
\* the parsed registry file: a list of items, or a JSON value that is no list
OFFICIAL_INPUTS ==
    {[is_list |-> TRUE, items |-> r] : r \in StringsUpTo(OFFICIAL_ITEMS, MaxRecords)}
        \cup {[is_list |-> FALSE, items |-> <<>>]}

\* AGG_SOURCES, in the order of the dict
AGG_SOURCES == <<"postupi", "tabiturient", "ucheba", "ucheba_subunits">>
Str(s) == [is_str |-> TRUE, val |-> s]
NonStr == [is_str |-> FALSE, val |-> <<>>]
\* the items each aggregator file can list
SOURCE_POOL ==
    [postupi |-> {Str(S_MGU), Str(S_MSU_IM), Str(S_RUT)},
     tabiturient |-> {Str(S_MIIGAIK), Str(S_RUT_FULL), Str(S_MIIT_RUT), NonStr},
     ucheba |-> {Str(S_RUT), Str(S_MSU), Str(S_FGBOU)},
     ucheba_subunits |-> {Str(S_MGU)}]
\* the items of the two files read when the fuzzy calls are kept
TRACED_POOL ==
    [postupi |-> SOURCE_POOL.postupi \cup {Str(S_MIIT_RUT_LC)},
     tabiturient |-> SOURCE_POOL.tabiturient \cup {Str(N_MIN)}]
\* the items of the two files read by the runs in two orders
REORDER_POOL ==
    [postupi |-> {Str(S_RUT), Str(N_MIN)},
     tabiturient |-> {Str(S_RUT_FULL), Str(S_MIIT_RUT), NonStr}]
\* a file that is missing, and one that holds a JSON value that is no list
Missing == [exists |-> FALSE, is_list |-> FALSE, items |-> <<>>]
NotList == [exists |-> TRUE, is_list |-> FALSE, items |-> <<>>]
\* the defect each file can have
SOURCE_DEFECT ==
    [postupi |-> Missing, tabiturient |-> NotList, ucheba |-> Missing,
     ucheba_subunits |-> Missing]
\* a source file: defective, or a list of at most MaxNames items
FILE_OPTIONS(src) ==
    {SOURCE_DEFECT[src]}
        \cup {[exists |-> TRUE, is_list |-> TRUE, items |-> l] :
                l \in StringsUpTo(SOURCE_POOL[src], MaxNames)}
TRACED_OPTIONS(src) ==
    {SOURCE_DEFECT[src]}
        \cup {[exists |-> TRUE, is_list |-> TRUE, items |-> l] :
                l \in StringsUpTo(TRACED_POOL[src], MaxNames)}
REORDER_OPTIONS(src) ==
    {SOURCE_DEFECT[src]}
        \cup {[exists |-> TRUE, is_list |-> TRUE, items |-> l] :
                l \in StringsUpTo(REORDER_POOL[src], MaxNames)}

\* scores of the fuzzy scorer: one on each side of the thresholds 90, 96 and
\* 97, one between 90 and 96, and the highest
ScoreVals == {89, 90, 93, 96, 97, 100}

\* ------------------------------------------------- tabulated functions
\* The functions of the names and of the keys are computed once, for the
\* strings of the inputs; the actions look the values up.
OFFICIAL_NAMES ==
    {i.val.organization_name : i \in {x \in TRACED_ITEMS \cup REORDER_ITEMS :
        x.type = "dict" /\ "organization_name" \in DOMAIN x.val}} \cup {<<>>}
SOURCE_NAMES ==
    {i.val : i \in {x \in UNION ({SOURCE_POOL[src] : src \in DOMAIN SOURCE_POOL}
                                   \cup {TRACED_POOL[src] : src \in DOMAIN TRACED_POOL}
                                   \cup {REORDER_POOL[src] : src \in DOMAIN REORDER_POOL}) :
                        x.is_str}}
\* the tables of the functions, from the tables of the aliases and of the keys
MemoOfKeys(aliases, official_keys, agg_keys) ==
    [aliases |-> aliases,
     official_key |-> official_keys,
     agg_key |-> agg_keys,
     is_branch_name |-> [n \in OFFICIAL_NAMES \cup SOURCE_NAMES |-> is_branch_name(n)],
     looks_like_subunit |-> [n \in SOURCE_NAMES |-> looks_like_subunit(n)],
     significant_tokens |->
        [k \in Range(official_keys) \cup Range(agg_keys) |-> _significant_tokens(k)],
     passes_fuzzy_guard |->
        [q \in Range(official_keys) |-> [b \in Range(agg_keys) |-> [score \in ScoreVals |->
            _passes_fuzzy_guard(q, b, score)]]]]
MemoOfAliases(aliases) ==
    MemoOfKeys(aliases,
               [n \in OFFICIAL_NAMES \cup UNION {Range(aliases[x]) : x \in DOMAIN aliases}
                    |-> official_key(n)],
               [n \in SOURCE_NAMES |-> agg_key(n)])
MEMO == MemoOfAliases([n \in OFFICIAL_NAMES |-> build_official_aliases(n)])

\* the look-ups; memo is MEMO
Aliases(memo, n) == memo.aliases[n]
OfficialKey(memo, n) == memo.official_key[n]
AggKey(memo, n) == memo.agg_key[n]
IsBranch(memo, n) == memo.is_branch_name[n]
LooksSubunit(memo, n) == memo.looks_like_subunit[n]
SignificantTokens(memo, k) == memo.significant_tokens[k]
PassesFuzzyGuard(memo, q, b, score) == memo.passes_fuzzy_guard[q][b][score]

\* ------------------------------------------------------------- variables
VARIABLES
    official,        \* the parsed registry file
    files,           \* the parsed aggregator files, by source
    FUZZ,            \* "rapidfuzz" if the library is importable, else "None"
    traced,          \* whether the calls of best_fuzzy are kept in fuzzy_calls
    pc,              \* position in main(): start, loop, done, error
    pos,             \* index of the next registry item of the loop
    union,           \* [{"name":..., "source":...}, ...]
    by_source,       \* source -> list of names
    key_to_idxs,     \* key -> indices in agg_names
    choices,         \* the unique keys of the aggregators, in order
    matched_agg_idx,
    enriched,
    fuzzy_rejected,
    exact_matches, fuzzy_matches, none_matches, review_count, branch_count,
    unmatched,
    report,
    fuzzy_calls,     \* history: the best_fuzzy calls made for the last record
    fuzzy_memo,      \* history: the answer of the scorer to each query it got
    first_run,       \* history: the outputs of the run of main() before this one
    fn_arg, fn_res,  \* argument and results of a function applied on its own
    cand_input,      \* build_aggregators_candidates: the parsed unmatched file
    cand_pc,         \* position in its main(): start, loop, done, or the exit taken
    cand_pos,        \* index of the next item of its loop
    by_name,         \* the candidate records, in the order of their creation
    cand_out         \* the candidate list written

vars == <<official, files, FUZZ, traced, pc, pos, union, by_source, key_to_idxs, choices,
          matched_agg_idx, enriched, fuzzy_rejected, exact_matches, fuzzy_matches,
          none_matches, review_count, branch_count, unmatched, report, fuzzy_calls,
          fuzzy_memo, first_run,
          fn_arg, fn_res, cand_input, cand_pc, cand_pos, by_name, cand_out>>
mainVars == <<official, files, FUZZ, traced, pc, pos, union, by_source, key_to_idxs, choices,
              matched_agg_idx, enriched, fuzzy_rejected, exact_matches, fuzzy_matches,
              none_matches, review_count, branch_count, unmatched, report, fuzzy_calls,
              fuzzy_memo, first_run>>
fnVars == <<fn_arg, fn_res>>
candVars == <<cand_input, cand_pc, cand_pos, by_name, cand_out>>

\* no run of main() has finished before this one
NoRun == [done |-> FALSE, items |-> <<>>, perm |-> <<>>, enriched |-> <<>>,
          fuzzy_rejected |-> <<>>, unmatched |-> <<>>, report |-> <<>>]
\* the program before main() has run
MainIdle ==
    /\ pc = "start" /\ pos = 0
    /\ union = <<>> /\ by_source = <<>> /\ key_to_idxs = <<>> /\ choices = <<>>
    /\ matched_agg_idx = {} /\ enriched = <<>> /\ fuzzy_rejected = <<>>
    /\ exact_matches = 0 /\ fuzzy_matches = 0 /\ none_matches = 0
    /\ review_count = 0 /\ branch_count = 0
    /\ unmatched = <<>> /\ report = <<>> /\ fuzzy_calls = <<>>
    /\ fuzzy_memo = <<>> /\ first_run = NoRun
FnIdle == fn_arg = <<>> /\ fn_res = <<>>
\* build_aggregators_candidates is not running
CandOff ==
    /\ cand_input = [exists |-> FALSE, is_list |-> FALSE, items |-> <<>>]
    /\ cand_pc = "start" /\ cand_pos = 0
    /\ by_name = <<>> /\ cand_out = <<>>

\* ------------------------------------------------------------ main logic
\* dict.get(k, default)
DictGet(d, k, default) == IF k \in DOMAIN d THEN d[k] ELSE default

\* build_aggregators_union(): the sources from position k on
RECURSIVE UnionFrom(_, _)
UnionFrom(f, k) ==
    IF k > Len(AGG_SOURCES) THEN [union |-> <<>>, by_source |-> <<>>]
    ELSE LET src == AGG_SOURCES[k]
             rest == UnionFrom(f, k + 1)
             keep(x) == x.is_str
             strs == SelectSeq(f[src].items, keep)
             names == [i \in 1..Len(strs) |-> strs[i].val]
             rows == [i \in 1..Len(names) |-> [name |-> names[i], source |-> src]]
         IN  IF ~f[src].exists \/ ~f[src].is_list THEN rest
             ELSE [union |-> (IF src = "ucheba_subunits" THEN <<>> ELSE rows) \o rest.union,
                   by_source |-> <<[source |-> src, names |-> names]>> \o rest.by_source]
build_aggregators_union(f) == UnionFrom(f, 1)

\* agg_keys = [agg_key(n) for n in agg_names]
AggKeys(memo, u) == [i \in 1..Len(u) |-> AggKey(memo, u[i].name)]
\* the index that keeps only the first position of every key
KeyToFirstIdxOnly(keys) ==
    [k \in Range(keys) |-> {SetMin({i \in 1..Len(keys) : keys[i] = k})}]
\* key_to_idxs: key -> the indices that carry it, ascending
KeyToIdxs(keys) ==
    [k \in Range(keys) |-> {i \in 1..Len(keys) : keys[i] = k}]
\* list(dict.fromkeys(agg_keys)): the first occurrences, in order
Choices(keys) ==
    LET t == [i \in 1..Len(keys) |->
                [k |-> keys[i], dup |-> \E j \in 1..(i - 1) : keys[j] = keys[i]]]
        keep(e) == ~e.dup
        u == SelectSeq(t, keep)
    IN  [i \in 1..Len(u) |-> u[i].k]

\* lines 390-423: the inputs are read, the union and the index are built
Load ==
    /\ pc = "start"
    /\ IF ~official.is_list
       THEN /\ pc' = "error"
            /\ UNCHANGED <<pos, union, by_source, key_to_idxs, choices>>
       ELSE \E b \in {build_aggregators_union(files)} :
            \E agg_keys \in {AggKeys(MEMO, b.union)} :
                /\ union' = b.union
                /\ by_source' = b.by_source
                /\ key_to_idxs' = KeyToIdxs(agg_keys)
                /\ choices' = Choices(agg_keys)
                /\ pos' = 1
                /\ pc' = "loop"
    /\ UNCHANGED <<official, files, FUZZ, traced, matched_agg_idx, enriched, fuzzy_rejected,
                   exact_matches, fuzzy_matches, none_matches, review_count,
                   branch_count, unmatched, report, fuzzy_calls, fuzzy_memo, first_run,
                   fnVars, candVars>>

\* sorted(set of sources): the order of str is the order of AGG_SOURCES
SortedSources(S) ==
    LET keep(s) == s \in S
    IN  SelectSeq(AGG_SOURCES, keep)
\* sorted(names, key=len)[0] for the names at idxs: the first of the shortest
ShortestName(u, idxs) ==
    LET i == CHOOSE i \in idxs :
                \A j \in idxs : \/ Len(u[i].name) < Len(u[j].name)
                                \/ Len(u[i].name) = Len(u[j].name) /\ i <= j
    IN  u[i].name

\* alias_pairs = [(a_raw, official_key(a_raw)) for a_raw in aliases_raw]
PairsOf(memo, aliases_raw) ==
    [i \in 1..Len(aliases_raw) |-> [raw |-> aliases_raw[i], key |-> OfficialKey(memo, aliases_raw[i])]]
AliasPairs(memo, org) == PairsOf(memo, Aliases(memo, org))

\* the exact lookup in which the last alias present in the index wins
ExactHitLastAlias(ok_main, alias_pairs, idx) ==
    LET hits == {i \in 1..Len(alias_pairs) :
                    alias_pairs[i].key # <<>> /\ alias_pairs[i].key \in DOMAIN idx}
    IN  IF ok_main \in DOMAIN idx
        THEN [hit |-> TRUE, key |-> ok_main, via |-> "official_name", alias |-> <<>>]
        ELSE IF hits # {}
        THEN [hit |-> TRUE, key |-> alias_pairs[SetMax(hits)].key,
              via |-> "official_alias", alias |-> alias_pairs[SetMax(hits)].raw]
        ELSE [hit |-> FALSE, key |-> <<>>, via |-> "", alias |-> <<>>]

\* the exact lookup that passes over the keys whose rows an earlier record
\* has matched
ExactHitUnclaimed(ok_main, alias_pairs, idx) ==
    LET free == {k \in DOMAIN idx : ~(idx[k] \subseteq matched_agg_idx)}
        hits == {i \in 1..Len(alias_pairs) :
                    alias_pairs[i].key # <<>> /\ alias_pairs[i].key \in free}
    IN  IF ok_main \in free
        THEN [hit |-> TRUE, key |-> ok_main, via |-> "official_name", alias |-> <<>>]
        ELSE IF hits # {}
        THEN [hit |-> TRUE, key |-> alias_pairs[SetMin(hits)].key,
              via |-> "official_alias", alias |-> alias_pairs[SetMin(hits)].raw]
        ELSE [hit |-> FALSE, key |-> <<>>, via |-> "", alias |-> <<>>]

\* lines 452-465: the key of the exact hit, "official_name" before the aliases
ExactHit(ok_main, alias_pairs, idx) ==
    LET hits == {i \in 1..Len(alias_pairs) :
                    alias_pairs[i].key # <<>> /\ alias_pairs[i].key \in DOMAIN idx}
    IN  IF ok_main \in DOMAIN idx
        THEN [hit |-> TRUE, key |-> ok_main, via |-> "official_name", alias |-> <<>>]
        ELSE IF hits # {}
        THEN [hit |-> TRUE, key |-> alias_pairs[SetMin(hits)].key,
              via |-> "official_alias", alias |-> alias_pairs[SetMin(hits)].raw]
        ELSE [hit |-> FALSE, key |-> <<>>, via |-> "", alias |-> <<>>]

\* what process.extractOne(query, choices, scorer=...) can answer
Answers(ch) == [key : Range(ch), score : ScoreVals]
\* best_fuzzy that asks the scorer whether or not the library is there
BestFuzzyAnyway(query, ch, fz, extractOne) ==
    IF query = <<>> \/ ch = <<>> THEN {[key |-> <<>>, score |-> 0]}
    ELSE IF query \in DOMAIN extractOne THEN extractOne[query]
    ELSE Answers(ch)
\* best_fuzzy(query, choices): its possible results; extractOne[query] is the
\* set of the answers of process.extractOne that are considered
best_fuzzy(query, ch, fz, extractOne) ==
    IF query = <<>> \/ ch = <<>> THEN {[key |-> <<>>, score |-> 0]}
    ELSE IF fz = "None" THEN {[key |-> <<>>, score |-> 0]}
    ELSE extractOne[query]

\* the keys best_fuzzy is asked about: the main key and the alias keys
QueryKeys(ok_main, alias_pairs) ==
    ({ok_main} \cup {alias_pairs[i].key : i \in 1..Len(alias_pairs)}) \ {<<>>}

\* the loop over the aliases in which a later equal score replaces the best
RECURSIVE BestOverAliasesGe(_, _, _, _, _, _, _)
BestOverAliasesGe(bests, ok_main, alias_pairs, k, ch, fz, extractOne) ==
    IF k > Len(alias_pairs) THEN bests
    ELSE IF alias_pairs[k].key = <<>>
    THEN BestOverAliasesGe(bests, ok_main, alias_pairs, k + 1, ch, fz, extractOne)
    ELSE LET next == {IF r.score >= b.score
                      THEN [score |-> r.score, key |-> r.key, via |-> "official_alias",
                            alias_raw |-> alias_pairs[k].raw]
                      ELSE b :
                        b \in bests,
                        r \in best_fuzzy(alias_pairs[k].key, ch, fz, extractOne)}
         IN  BestOverAliasesGe(next, ok_main, alias_pairs, k + 1, ch, fz, extractOne)

\* lines 494-502: the loop over the aliases from position k on, for every
\* best-so-far of the set bests.  A key that was asked before gets the answer
\* it got before, which is not above the best score: it changes nothing.
RECURSIVE BestOverAliases(_, _, _, _, _, _, _)
BestOverAliases(bests, ok_main, alias_pairs, k, ch, fz, extractOne) ==
    IF k > Len(alias_pairs) THEN bests
    ELSE IF alias_pairs[k].key = <<>>
    THEN BestOverAliases(bests, ok_main, alias_pairs, k + 1, ch, fz, extractOne)
    ELSE IF alias_pairs[k].key = ok_main
            \/ \E j \in 1..(k - 1) : alias_pairs[j].key = alias_pairs[k].key
    THEN BestOverAliases(bests, ok_main, alias_pairs, k + 1, ch, fz, extractOne)
    ELSE LET next == {IF r.score > b.score
                      THEN [score |-> r.score, key |-> r.key, via |-> "official_alias",
                            alias_raw |-> alias_pairs[k].raw]
                      ELSE b :
                        b \in bests,
                        r \in best_fuzzy(alias_pairs[k].key, ch, fz, extractOne)}
         IN  BestOverAliases(next, ok_main, alias_pairs, k + 1, ch, fz, extractOne)
\* lines 487-502: the possible values of (best_score, best_key, best_via,
\* best_alias_raw) after the loop
FuzzyBest(ok_main, alias_pairs, ch, fz, extractOne) ==
    BestOverAliases({[score |-> m.score, key |-> m.key, via |-> "official_name",
                      alias_raw |-> <<>>] : m \in best_fuzzy(ok_main, ch, fz, extractOne)},
                    ok_main, alias_pairs, 1, ch, fz, extractOne)
\* the calls of best_fuzzy of lines 487-497, in order, with their results,
\* when process.extractOne has one answer for every query
FuzzyCalls(ok_main, alias_pairs, ch, fz, extractOne) ==
    LET keep(p) == p.key # <<>>
        ks == SelectSeq(alias_pairs, keep)
        qs == <<ok_main>> \o [i \in 1..Len(ks) |-> ks[i].key]
    IN  [i \in 1..Len(qs) |->
            [query |-> qs[i],
             result |-> CHOOSE r \in best_fuzzy(qs[i], ch, fz, extractOne) : TRUE]]

\* lines 436-449: the match object before the lookups
MatchDefaults(memo, org, ok_main, alias_pairs) ==
    LET keep(p) == p.key # <<>> /\ p.key # ok_main
        ks == SelectSeq(alias_pairs, keep)
    IN  [official_key |-> ok_main,
         official_aliases |-> [i \in 1..Len(alias_pairs) |-> alias_pairs[i].raw],
         official_alias_keys |-> [i \in 1..Len(ks) |-> ks[i].key],
         found_in_aggregators |-> FALSE,
         match_type |-> "none",
         match_score |-> 0,
         matched_name |-> <<>>,
         aggregator_sources |-> <<>>,
         review |-> FALSE,
         is_branch |-> IsBranch(memo, org),
         matched_via |-> "",
         matched_official_alias |-> <<>>]

\* the exact branch that does not say by which key the record was found
ExactMatchNoVia(m, hit, u, idx) ==
    [m EXCEPT !.found_in_aggregators = TRUE,
              !.match_type = "exact",
              !.match_score = 100,
              !.matched_name = ShortestName(u, idx[hit.key]),
              !.aggregator_sources = SortedSources({u[i].source : i \in idx[hit.key]}),
              !.matched_official_alias =
                  IF hit.via = "official_alias" THEN hit.alias ELSE <<>>]

\* the exact branch that leaves match_score as it was
ExactMatchNoScore(m, hit, u, idx) ==
    [m EXCEPT !.found_in_aggregators = TRUE,
              !.match_type = "exact",
              !.matched_name = ShortestName(u, idx[hit.key]),
              !.aggregator_sources = SortedSources({u[i].source : i \in idx[hit.key]}),
              !.matched_via = hit.via,
              !.matched_official_alias =
                  IF hit.via = "official_alias" THEN hit.alias ELSE <<>>]

\* lines 467-483: the match object of an exact hit
ExactMatch(m, hit, u, idx) ==
    [m EXCEPT !.found_in_aggregators = TRUE,
              !.match_type = "exact",
              !.match_score = 100,
              !.matched_name = ShortestName(u, idx[hit.key]),
              !.aggregator_sources = SortedSources({u[i].source : i \in idx[hit.key]}),
              !.matched_via = hit.via,
              !.matched_official_alias =
                  IF hit.via = "official_alias" THEN hit.alias ELSE <<>>]

\* line 504
GuardQuery(memo, ok_main, best) ==
    IF best.via = "official_name" THEN ok_main ELSE OfficialKey(memo, best.alias_raw)
\* the acceptance test without the guard
FuzzyPassedNoGuard(memo, guard_query, best) ==
    /\ best.score >= 90
    /\ best.key # <<>>

\* line 506, guard_query the value of line 504
FuzzyPassed(memo, guard_query, best) ==
    /\ best.score >= 90
    /\ best.key # <<>>
    /\ PassesFuzzyGuard(memo, guard_query, best.key, best.score)

\* the fuzzy branch without the review flag of the low scores
FuzzyMatchNoReview(m, best, u, idx) ==
    LET idxs == IF best.key \in DOMAIN idx THEN idx[best.key] ELSE {}
    IN  [m EXCEPT !.found_in_aggregators = TRUE,
                  !.match_type = "fuzzy",
                  !.match_score = best.score,
                  !.matched_name = u[SetMin(idx[best.key])].name,
                  !.aggregator_sources = SortedSources({u[i].source : i \in idxs}),
                  !.matched_via = best.via,
                  !.matched_official_alias =
                      IF best.via = "official_alias" THEN best.alias_raw ELSE <<>>]

\* lines 508-525: the match object of an accepted fuzzy match
FuzzyMatch(m, best, u, idx) ==
    LET idxs == IF best.key \in DOMAIN idx THEN idx[best.key] ELSE {}
    IN  [m EXCEPT !.found_in_aggregators = TRUE,
                  !.match_type = "fuzzy",
                  !.match_score = best.score,
                  !.matched_name = u[SetMin(idx[best.key])].name,
                  !.aggregator_sources = SortedSources({u[i].source : i \in idxs}),
                  !.matched_via = best.via,
                  !.matched_official_alias =
                      IF best.via = "official_alias" THEN best.alias_raw ELSE <<>>,
                  !.review = best.score < 96]

\* the entry that lists the union of the token sets as their intersection
RejectedEntryUnion(org, guard_query, best, q_sig, b_sig) ==
        [org |-> org,
         guard_query |-> guard_query,
         best_key |-> best.key,
         best_score |-> best.score,
         best_via |-> best.via,
         best_alias_raw |-> best.alias_raw,
         q_sig |-> q_sig,
         b_sig |-> b_sig,
         intersection |-> q_sig \cup b_sig]

\* lines 527-540: the entry of the diagnostic list for a rejected near-miss
RejectedEntry(org, guard_query, best, q_sig, b_sig) ==
        [org |-> org,
         guard_query |-> guard_query,
         best_key |-> best.key,
         best_score |-> best.score,
         best_via |-> best.via,
         best_alias_raw |-> best.alias_raw,
         q_sig |-> q_sig,
         b_sig |-> b_sig,
         intersection |-> q_sig \cap b_sig]
Rejected(memo, org, guard_query, best) ==
    RejectedEntry(org, guard_query, best,
                  SignificantTokens(memo, guard_query), SignificantTokens(memo, best.key))

\* lines 543-548: review and is_branch by the matched name
ReviewMerge(memo, m) ==
    LET mn == m.matched_name
    IN  [m EXCEPT !.review = m.review \/ (mn # <<>> /\ LooksSubunit(memo, mn)),
                  !.is_branch = m.is_branch \/ (mn # <<>> /\ IsBranch(memo, mn))]

\* out = dict(rec); out["match"] = m
WithMatch(rec, m) ==
    [f \in DOMAIN rec \cup {"match"} |-> IF f = "match" THEN m ELSE rec[f]]

\* lines 451-555 for the record rec: org its name, ok_main and alias_pairs its
\* keys, m0 its match object before the lookups; extractOne[q] the answers of
\* process.extractOne to the query q that are considered.
\* (\E x \in {e} names the value of e.)
Iteration(memo, rec, org, ok_main, alias_pairs, m0, extractOne) ==
    \E hit \in {ExactHit(ok_main, alias_pairs, key_to_idxs)} :
    \E best \in (IF hit.hit
                 THEN {[score |-> 0, key |-> <<>>, via |-> "", alias_raw |-> <<>>]}
                 ELSE FuzzyBest(ok_main, alias_pairs, choices, FUZZ, extractOne)) :
    \E guard_query \in {GuardQuery(memo, ok_main, best)} :
    \E passed \in {~hit.hit /\ FuzzyPassed(memo, guard_query, best)} :
    \E m \in {ReviewMerge(memo, IF hit.hit THEN ExactMatch(m0, hit, union, key_to_idxs)
                                ELSE IF passed THEN FuzzyMatch(m0, best, union, key_to_idxs)
                                ELSE m0)} :
        /\ matched_agg_idx' =
               IF hit.hit THEN matched_agg_idx \cup key_to_idxs[hit.key]
               ELSE IF passed /\ best.key \in DOMAIN key_to_idxs
               THEN matched_agg_idx \cup key_to_idxs[best.key]
               ELSE matched_agg_idx
        /\ exact_matches' = exact_matches + (IF hit.hit THEN 1 ELSE 0)
        /\ fuzzy_matches' = fuzzy_matches + (IF passed THEN 1 ELSE 0)
        /\ none_matches' = none_matches + (IF ~hit.hit /\ ~passed THEN 1 ELSE 0)
        /\ fuzzy_rejected' =
               IF ~hit.hit /\ ~passed /\ best.score >= 90 /\ best.key # <<>>
               THEN Append(fuzzy_rejected, Rejected(memo, org, guard_query, best))
               ELSE fuzzy_rejected
        /\ review_count' = review_count + (IF m.review THEN 1 ELSE 0)
        /\ branch_count' = branch_count + (IF m.is_branch THEN 1 ELSE 0)
        /\ enriched' = Append(enriched, WithMatch(rec, m))
        /\ fuzzy_calls' =
               IF traced /\ ~hit.hit
               THEN FuzzyCalls(ok_main, alias_pairs, choices, FUZZ, extractOne)
               ELSE <<>>
        /\ fuzzy_memo' =
               IF traced /\ ~hit.hit
               THEN [q \in DOMAIN fuzzy_memo \cup DOMAIN extractOne |->
                        IF q \in DOMAIN fuzzy_memo THEN fuzzy_memo[q]
                        ELSE CHOOSE r \in extractOne[q] : TRUE]
               ELSE fuzzy_memo

\* the scorers that are considered for the queries Q: with traced, every
\* function from the queries to an answer that answers a query it got before
\* as it did then; without, the one that leaves every answer open
Scorers(Q) ==
    IF traced
    THEN {[q \in Q |-> {IF q \in DOMAIN fuzzy_memo THEN fuzzy_memo[q] ELSE extract[q]}] :
            extract \in [Q \ DOMAIN fuzzy_memo -> Answers(choices)]}
    ELSE {[q \in Q |-> Answers(choices)]}

\* lines 425-555: one iteration of the loop over the registry, for the item at
\* pos
ProcessRecord ==
    /\ pc = "loop"
    /\ pos <= Len(official.items)
    /\ pos' = pos + 1
    /\ IF official.items[pos].type # "dict"
       THEN UNCHANGED <<matched_agg_idx, enriched, fuzzy_rejected, exact_matches,
                        fuzzy_matches, none_matches, review_count, branch_count,
                        fuzzy_calls, fuzzy_memo>>
       ELSE \E memo \in {MEMO} :
            \E rec \in {official.items[pos].val} :
            \E org \in {DictGet(rec, "organization_name", <<>>)} :
            \E ok_main \in {OfficialKey(memo, org)} :
            \E alias_pairs \in {AliasPairs(memo, org)} :
            \E extractOne \in Scorers(IF FUZZ = "None" \/ choices = <<>> THEN {}
                                      ELSE QueryKeys(ok_main, alias_pairs)) :
                Iteration(memo, rec, org, ok_main, alias_pairs,
                          MatchDefaults(memo, org, ok_main, alias_pairs), extractOne)
    /\ UNCHANGED <<official, files, FUZZ, traced, pc, union, by_source, key_to_idxs,
                   choices, unmatched, report, first_run, fnVars, candVars>>

\* lines 557-567: the union rows that no record matched
Unmatched(memo, u, matched) ==
    LET keep(r) == r.i \notin matched
        rows == SelectSeq([i \in 1..Len(u) |-> [i |-> i, row |-> u[i]]], keep)
    IN  [i \in 1..Len(rows) |->
            [name |-> rows[i].row.name, source |-> rows[i].row.source,
             key |-> AggKey(memo, rows[i].row.name)]]

\* lines 557-589: the unmatched names and the report
Finish ==
    /\ pc = "loop"
    /\ pos > Len(official.items)
    /\ \E un \in {Unmatched(MEMO, union, matched_agg_idx)} :
           /\ unmatched' = un
           /\ report' = [official_total |-> Len(enriched),
                         aggregators_union_total |-> Len(union),
                         matched_exact |-> exact_matches,
                         matched_fuzzy |-> fuzzy_matches,
                         matched_total |-> exact_matches + fuzzy_matches,
                         unmatched_official |-> none_matches,
                         unmatched_aggregators |-> Len(un),
                         review_count |-> review_count,
                         branch_count |-> branch_count,
                         sources |-> [i \in 1..Len(by_source) |->
                                        [source |-> by_source[i].source,
                                         count |-> Len(by_source[i].names)]]]
    /\ pc' = "done"
    /\ UNCHANGED <<official, files, FUZZ, traced, pos, union, by_source, key_to_idxs, choices,
                   matched_agg_idx, enriched, fuzzy_rejected, exact_matches,
                   fuzzy_matches, none_matches, review_count, branch_count,
                   fuzzy_calls, fuzzy_memo, first_run, fnVars, candVars>>

\* the inputs of a run of main()
Inputs ==
    /\ official \in OFFICIAL_INPUTS
    /\ \E p \in FILE_OPTIONS("postupi"), t \in FILE_OPTIONS("tabiturient"),
          u \in FILE_OPTIONS("ucheba"), su \in FILE_OPTIONS("ucheba_subunits") :
          files = [postupi |-> p, tabiturient |-> t, ucheba |-> u, ucheba_subunits |-> su]
    /\ FUZZ \in {"rapidfuzz", "None"}
    /\ MainIdle
    /\ FnIdle
    /\ CandOff

Init == Inputs /\ traced = FALSE

Next ==
    \/ Load
    \/ ProcessRecord
    \/ Finish

Spec == Init /\ [][Next]_vars

\* a registry of one record and the files of two sources, the calls of
\* best_fuzzy kept
InitTraced ==
    /\ \E item \in TRACED_ITEMS : official = [is_list |-> TRUE, items |-> <<item>>]
    /\ \E p \in TRACED_OPTIONS("postupi"), t \in TRACED_OPTIONS("tabiturient") :
          files = [postupi |-> p, tabiturient |-> t, ucheba |-> Missing,
                   ucheba_subunits |-> Missing]
    /\ FUZZ \in {"rapidfuzz", "None"}
    /\ MainIdle
    /\ FnIdle
    /\ CandOff
    /\ traced = TRUE

SpecTraced == InitTraced /\ [][Next]_vars

\* the permutations of 1..n
Perms(n) == {p \in [1..n -> 1..n] : \A i, j \in 1..n : p[i] = p[j] => i = j}

\* main() is run again, on the registry with its items in another order and
\* on the same source files; the outputs of the finished run are kept
RunAgain ==
    /\ pc = "done"
    /\ ~first_run.done
    /\ \E p \in Perms(Len(official.items)) :
          /\ official' = [official EXCEPT
                             !.items = [i \in 1..Len(official.items) |-> official.items[p[i]]]]
          /\ first_run' = [done |-> TRUE, items |-> official.items, perm |-> p,
                           enriched |-> enriched, fuzzy_rejected |-> fuzzy_rejected,
                           unmatched |-> unmatched, report |-> report]
    /\ pc' = "start" /\ pos' = 0
    /\ union' = <<>> /\ by_source' = <<>> /\ key_to_idxs' = <<>> /\ choices' = <<>>
    /\ matched_agg_idx' = {} /\ enriched' = <<>> /\ fuzzy_rejected' = <<>>
    /\ exact_matches' = 0 /\ fuzzy_matches' = 0 /\ none_matches' = 0
    /\ review_count' = 0 /\ branch_count' = 0
    /\ unmatched' = <<>> /\ report' = <<>> /\ fuzzy_calls' = <<>>
    /\ UNCHANGED <<files, FUZZ, traced, fuzzy_memo, fnVars, candVars>>

\* registries of up to MaxReorderRecords items and the files of two sources;
\* the scorer answers a query the same way every time
InitReorder ==
    /\ \E r \in StringsUpTo(REORDER_ITEMS, MaxReorderRecords) :
          official = [is_list |-> TRUE, items |-> r]
    /\ \E p \in REORDER_OPTIONS("postupi"), t \in REORDER_OPTIONS("tabiturient") :
          files = [postupi |-> p, tabiturient |-> t, ucheba |-> Missing,
                   ucheba_subunits |-> Missing]
    /\ FUZZ \in {"rapidfuzz", "None"}
    /\ MainIdle
    /\ FnIdle
    /\ CandOff
    /\ traced = TRUE

NextReorder ==
    \/ Load
    \/ ProcessRecord
    \/ Finish
    \/ RunAgain

SpecReorder == InitReorder /\ [][NextReorder]_vars

\* main() is not running
MainOff ==
    /\ official = [is_list |-> FALSE, items |-> <<>>]
    /\ files = <<>>
    /\ FUZZ = "None"
    /\ traced = FALSE
    /\ MainIdle
    /\ CandOff

\* ---------------------------------------------- norm_text as a function
MaxNormLen == 3
\* one character of every class norm_text distinguishes:
\* а А ё Ё z Z 7 space NBSP - – . « #
NormAlphabet == {1072, 1040, 1105, 1025, 122, 90, 55, 32, 160, 45, 8211, 46, 171, 35}

InitNorm ==
    /\ fn_arg \in StringsUpTo(NormAlphabet, MaxNormLen)
    /\ fn_res = <<>>
    /\ MainOff

\* one more application of norm_text, to the previous result
ApplyNorm ==
    /\ Len(fn_res) < 2
    /\ fn_res' = Append(fn_res, norm_text(IF fn_res = <<>> THEN fn_arg ELSE fn_res[Len(fn_res)]))
    /\ UNCHANGED <<fn_arg, mainVars, candVars>>

NextNorm == ApplyNorm
SpecNorm == InitNorm /\ [][NextNorm]_vars

\* ------------------------------------- official_key, agg_key as functions
MaxKeyWords == 3
\* высшего образования во министерства российской федерации мгу
KEY_WORDS == {
    <<1074, 1099, 1089, 1096, 1077, 1075, 1086>>,
    <<1086, 1073, 1088, 1072, 1079, 1086, 1074, 1072, 1085, 1080, 1103>>,
    <<1074, 1086>>,
    <<1084, 1080, 1085, 1080, 1089, 1090, 1077, 1088, 1089, 1090, 1074, 1072>>,
    <<1088, 1086, 1089, 1089, 1080, 1081, 1089, 1082, 1086, 1081>>,
    <<1092, 1077, 1076, 1077, 1088, 1072, 1094, 1080, 1080>>,
    <<1084, 1075, 1091>>
}

InitKey ==
    /\ fn_arg \in {[fn |-> f, s |-> Join(w)] :
                     f \in {"official_key", "agg_key"},
                     w \in StringsUpTo(KEY_WORDS, MaxKeyWords)}
    /\ fn_res = <<>>
    /\ MainOff

ApplyOfficialKey ==
    /\ fn_arg.fn = "official_key"
    /\ Len(fn_res) < 2
    /\ fn_res' = Append(fn_res, official_key(IF fn_res = <<>> THEN fn_arg.s ELSE fn_res[Len(fn_res)]))
    /\ UNCHANGED <<fn_arg, mainVars, candVars>>

ApplyAggKey ==
    /\ fn_arg.fn = "agg_key"
    /\ Len(fn_res) < 2
    /\ fn_res' = Append(fn_res, agg_key(IF fn_res = <<>> THEN fn_arg.s ELSE fn_res[Len(fn_res)]))
    /\ UNCHANGED <<fn_arg, mainVars, candVars>>

NextKey == ApplyOfficialKey \/ ApplyAggKey
SpecKey == InitKey /\ [][NextKey]_vars

\* ------------------------------------- _passes_fuzzy_guard as a function
MaxGuardTokens == 2
\* мгу (an anchor), ломоносова, физики, университет (generic), им (short)
GUARD_WORDS == <<
    <<1084, 1075, 1091>>,
    <<1083, 1086, 1084, 1086, 1085, 1086, 1089, 1086, 1074, 1072>>,
    <<1092, 1080, 1079, 1080, 1082, 1080>>,
    <<1091, 1085, 1080, 1074, 1077, 1088, 1089, 1080, 1090, 1077, 1090>>,
    <<1080, 1084>>
>>
\* the keys made of at most MaxGuardTokens of the words
GuardKeys ==
    {Join(SelectSeq(GUARD_WORDS, LAMBDA w : w \in S)) :
        S \in {T \in SUBSET Range(GUARD_WORDS) : Cardinality(T) <= MaxGuardTokens}}
\* key + " " + token
WithToken(key, t) == IF key = <<>> THEN t ELSE key \o <<32>> \o t

InitGuard ==
    /\ fn_arg \in [query_key : GuardKeys, best_key : GuardKeys, score : ScoreVals]
    /\ fn_res = <<>>
    /\ MainOff

\* the guard on the keys and the score of fn_arg
EvalGuard ==
    /\ fn_res = <<>>
    /\ fn_res' = <<[token |-> <<>>, score |-> fn_arg.score,
                    passes |-> _passes_fuzzy_guard(fn_arg.query_key, fn_arg.best_key,
                                                   fn_arg.score)]>>
    /\ UNCHANGED <<fn_arg, mainVars, candVars>>

\* the guard again, with one more token in both keys and a score not lower
EvalGuardWithToken ==
    /\ Len(fn_res) = 1
    /\ \E t \in Range(GUARD_WORDS), s2 \in ScoreVals :
          /\ s2 >= fn_arg.score
          /\ fn_res' = Append(fn_res,
                [token |-> t, score |-> s2,
                 passes |-> _passes_fuzzy_guard(WithToken(fn_arg.query_key, t),
                                                WithToken(fn_arg.best_key, t), s2)])
    /\ UNCHANGED <<fn_arg, mainVars, candVars>>

NextGuard == EvalGuard \/ EvalGuardWithToken
SpecGuard == InitGuard /\ [][NextGuard]_vars

\* ------------------------------- build_official_aliases as a function
MaxAliasWords == 3
\* Московский университет транспорта Российской Федерации РФ
ALIAS_WORDS == {
    <<1052, 1086, 1089, 1082, 1086, 1074, 1089, 1082, 1080, 1081>>,
    <<1091, 1085, 1080, 1074, 1077, 1088, 1089, 1080, 1090, 1077, 1090>>,
    <<1090, 1088, 1072, 1085, 1089, 1087, 1086, 1088, 1090, 1072>>,
    <<1056, 1086, 1089, 1089, 1080, 1081, 1089, 1082, 1086, 1081>>,
    <<1060, 1077, 1076, 1077, 1088, 1072, 1094, 1080, 1080>>,
    <<1056, 1060>>
}

InitAlias ==
    /\ fn_arg \in {Join(w) : w \in StringsUpTo(ALIAS_WORDS, MaxAliasWords)}
    /\ fn_res = <<>>
    /\ MainOff

\* the aliases of the name fn_arg
ApplyAliases ==
    /\ fn_res = <<>>
    /\ fn_res' = <<build_official_aliases(fn_arg)>>
    /\ UNCHANGED <<fn_arg, mainVars, candVars>>

NextAlias == ApplyAliases
SpecAlias == InitAlias /\ [][NextAlias]_vars

\* ============================================================ parse_uni_dump
\* scripts/parse_uni_dump.py: the registry dump is normalised and its
\* university records are grouped; each group gets a representative.

\* None, and a JSON string
None == [is_str |-> FALSE, val |-> <<>>]

\* str.replace(old, new): the occurrences of old from the left, not overlapping
RECURSIVE ReplaceLitFrom(_, _, _, _)
ReplaceLitFrom(s, i, old, new) ==
    LET starts == {j \in i..Len(s) : HasLit(s, j, old, FALSE)}
    IN  IF starts = {} THEN SubSeq(s, i, Len(s))
        ELSE LET j == SetMin(starts)
             IN  SubSeq(s, i, j - 1) \o new \o ReplaceLitFrom(s, j + Len(old), old, new)
ReplaceLit(s, old, new) == ReplaceLitFrom(s, 1, old, new)

normalize_ws(s) ==
    LET s1 == ReplaceCh(s, NBSP, 32)
        s2 == Strip(SubRuns(s1, IsSpace))
    IN  ReplaceCh(ReplaceCh(s2, 171, 34), 187, 34)

\* "федеральное государственное бюджетное образовательное учреждение высшего образования"
FGBOU_LONG ==
    <<1092, 1077, 1076, 1077, 1088, 1072, 1083, 1100, 1085, 1086, 1077, 32, 1075, 1086, 1089,
      1091, 1076, 1072, 1088, 1089, 1090, 1074, 1077, 1085, 1085, 1086, 1077, 32, 1073, 1102,
      1076, 1078, 1077, 1090, 1085, 1086, 1077, 32, 1086, 1073, 1088, 1072, 1079, 1086, 1074,
      1072, 1090, 1077, 1083, 1100, 1085, 1086, 1077, 32, 1091, 1095, 1088, 1077, 1078, 1076,
      1077, 1085, 1080, 1077, 32, 1074, 1099, 1089, 1096, 1077, 1075, 1086, 32, 1086, 1073,
      1088, 1072, 1079, 1086, 1074, 1072, 1085, 1080, 1103>>
\* "фгбоу во"
FGBOU_VO == <<1092, 1075, 1073, 1086, 1091, 32, 1074, 1086>>
\* "автономная некоммерческая образовательная организация высшего образования"
ANOO_LONG ==
    <<1072, 1074, 1090, 1086, 1085, 1086, 1084, 1085, 1072, 1103, 32, 1085, 1077, 1082, 1086,
      1084, 1084, 1077, 1088, 1095, 1077, 1089, 1082, 1072, 1103, 32, 1086, 1073, 1088, 1072,
      1079, 1086, 1074, 1072, 1090, 1077, 1083, 1100, 1085, 1072, 1103, 32, 1086, 1088, 1075,
      1072, 1085, 1080, 1079, 1072, 1094, 1080, 1103, 32, 1074, 1099, 1089, 1096, 1077, 1075,
      1086, 32, 1086, 1073, 1088, 1072, 1079, 1086, 1074, 1072, 1085, 1080, 1103>>
\* "ано во"
ANO_VO == <<1072, 1085, 1086, 32, 1074, 1086>>
\* "образовательное учреждение высшего образования"
OU_LONG ==
    <<1086, 1073, 1088, 1072, 1079, 1086, 1074, 1072, 1090, 1077, 1083, 1100, 1085, 1086, 1077,
      32, 1091, 1095, 1088, 1077, 1078, 1076, 1077, 1085, 1080, 1077, 32, 1074, 1099, 1089,
      1096, 1077, 1075, 1086, 32, 1086, 1073, 1088, 1072, 1079, 1086, 1074, 1072, 1085, 1080,
      1103>>
\* "во"
VO_SHORT == <<1074, 1086>>

norm_org_name(name) ==
    LET n0 == Lower(normalize_ws(name))
        n1 == ReplaceLit(n0, FGBOU_LONG, FGBOU_VO)
        n2 == ReplaceLit(n1, ANOO_LONG, ANO_VO)
    IN  ReplaceLit(n2, OU_LONG, VO_SHORT)

\* the substrings is_university_candidate looks for:
\* "высшего образования", "университет", "институт", "академ", "фгбоу во", "во "
UNIVERSITY_MARKS == {
    <<1074, 1099, 1089, 1096, 1077, 1075, 1086, 32, 1086, 1073, 1088, 1072, 1079, 1086, 1074, 1072, 1085, 1080, 1103>>,
    <<1091, 1085, 1080, 1074, 1077, 1088, 1089, 1080, 1090, 1077, 1090>>,
    <<1080, 1085, 1089, 1090, 1080, 1090, 1091, 1090>>,
    <<1072, 1082, 1072, 1076, 1077, 1084>>,
    <<1092, 1075, 1073, 1086, 1091, 32, 1074, 1086>>,
    <<1074, 1086, 32>>
}

is_university_candidate(name) ==
    LET n == Lower(name)
    IN  \E m \in UNIVERSITY_MARKS : Contains(n, m)

\* obj = dict(r); obj["_norm"] = {...}
NormalizeRecord(r) ==
    LET got == DictGet(r, "organization_name", None)
        name == IF got.is_str THEN got.val ELSE <<>>
        _norm == [organization_name_ws |-> normalize_ws(name),
                  organization_name_norm |-> norm_org_name(name),
                  is_university_candidate |-> name # <<>> /\ is_university_candidate(name)]
    IN  [k \in DOMAIN r \cup {"_norm"} |-> IF k = "_norm" THEN _norm ELSE r[k]]
normalize_records(records) == [i \in 1..Len(records) |-> NormalizeRecord(records[i])]

\* r.get("inn") or r.get("organization", {}).get("inn") or "", and the same for ogrn
IdField(r, f) ==
    LET own == DictGet(r, f, <<>>)
        org == DictGet(r, "organization", <<>>)
    IN  IF own # <<>> THEN own ELSE DictGet(org, f, <<>>)

\* f"{name_norm}||inn={inn}||ogrn={ogrn}"
GroupKey(r) ==
    r._norm.organization_name_norm \o <<124, 124, 105, 110, 110, 61>> \o IdField(r, "inn")
        \o <<124, 124, 111, 103, 114, 110, 61>> \o IdField(r, "ogrn")

\* groups.setdefault(key, []).append(r) for the records from i on; the groups
\* are kept in the order in which their keys were first seen
RECURSIVE GroupFrom(_, _, _)
GroupFrom(records_norm, i, groups) ==
    IF i > Len(records_norm) THEN groups
    ELSE LET r == records_norm[i]
             key == GroupKey(r)
             at == {g \in 1..Len(groups) : groups[g].key = key}
         IN  IF ~r._norm.is_university_candidate THEN GroupFrom(records_norm, i + 1, groups)
             ELSE IF at = {}
                  THEN GroupFrom(records_norm, i + 1, Append(groups, [key |-> key, items |-> <<r>>]))
                  ELSE GroupFrom(records_norm, i + 1,
                           [groups EXCEPT ![SetMin(at)].items = Append(@, r)])

IsDigit(c) == c \in 48..57
\* int() of a string of decimal digits
RECURSIVE IntOf(_)
IntOf(s) == IF s = <<>> THEN 0 ELSE 10 * IntOf(SubSeq(s, 1, Len(s) - 1)) + (s[Len(s)] - 48)
\* re.fullmatch(r"(\d{2})\.(\d{2})\.(\d{4})", s.strip()); the result is
\* (yyyy, mm, dd), or None
parse_ddmmyyyy(v) ==
    IF ~v.is_str THEN None
    ELSE LET s == Strip(v.val)
             m == /\ Len(s) = 10
                  /\ \A i \in {1, 2, 4, 5, 7, 8, 9, 10} : IsDigit(s[i])
                  /\ s[3] = 46 /\ s[6] = 46
         IN  IF ~m THEN None
             ELSE [is_str |-> FALSE,
                   val |-> <<IntOf(SubSeq(s, 7, 10)), IntOf(SubSeq(s, 4, 5)), IntOf(SubSeq(s, 1, 2))>>]
\* parse_ddmmyyyy(it.get("date_issue", "")) or (0, 0, 0)
DateOf(it) ==
    LET d == parse_ddmmyyyy(DictGet(it, "date_issue", Str(<<>>)))
    IN  IF d = None THEN <<0, 0, 0>> ELSE d.val
\* dt > best_dt on tuples of three integers
TupleGt(a, b) ==
    \/ a[1] > b[1]
    \/ a[1] = b[1] /\ a[2] > b[2]
    \/ a[1] = b[1] /\ a[2] = b[2] /\ a[3] > b[3]
\* the loop over items[1:]: the item replaces best when its date is greater
RECURSIVE BestFrom(_, _, _)
BestFrom(items, i, best) ==
    IF i > Len(items) THEN best
    ELSE IF TupleGt(DateOf(items[i]), DateOf(best)) THEN BestFrom(items, i + 1, items[i])
    ELSE BestFrom(items, i + 1, best)
\* the first member, whatever the dates
RepresentativeFirst(items) == items[1]
Representative(items) == BestFrom(items, 2, items[1])

dedup_universities(records_norm) ==
    LET groups == GroupFrom(records_norm, 1, <<>>)
        rep(g) ==
            LET best == Representative(g.items)
            IN  [group_key |-> g.key,
                 organization_name |-> DictGet(best, "organization_name", None),
                 register_number |-> DictGet(best, "register_number", None),
                 date_issue |-> DictGet(best, "date_issue", None),
                 date_end |-> DictGet(best, "date_end", None),
                 id |-> DictGet(best, "id", None),
                 sources_count |-> Len(g.items)]
        aud(g) ==
            [group_key |-> g.key,
             representative_id |-> DictGet(Representative(g.items), "id", None),
             sources |-> g.items]
    IN  [unique |-> [k \in 1..Len(groups) |-> rep(groups[k])],
         audit |-> [k \in 1..Len(groups) |-> aud(groups[k])]]

\* ------------------------------------------ dedup_universities as a function
MaxDedupRecords == 3

\* Федеральное государственное бюджетное образовательное учреждение высшего образования «Горный институт»
DN_FULL ==
    <<1060, 1077, 1076, 1077, 1088, 1072, 1083, 1100, 1085, 1086, 1077, 32, 1075, 1086, 1089,
      1091, 1076, 1072, 1088, 1089, 1090, 1074, 1077, 1085, 1085, 1086, 1077, 32, 1073, 1102,
      1076, 1078, 1077, 1090, 1085, 1086, 1077, 32, 1086, 1073, 1088, 1072, 1079, 1086, 1074,
      1072, 1090, 1077, 1083, 1100, 1085, 1086, 1077, 32, 1091, 1095, 1088, 1077, 1078, 1076,
      1077, 1085, 1080, 1077, 32, 1074, 1099, 1089, 1096, 1077, 1075, 1086, 32, 1086, 1073,
      1088, 1072, 1079, 1086, 1074, 1072, 1085, 1080, 1103, 32, 171, 1043, 1086, 1088, 1085,
      1099, 1081, 32, 1080, 1085, 1089, 1090, 1080, 1090, 1091, 1090, 187>>
\* ФГБОУ ВО  "Горный<NBSP>институт"
DN_SHORT ==
    <<1060, 1043, 1041, 1054, 1059, 32, 1042, 1054, 32, 32, 34, 1043, 1086, 1088, 1085, 1099,
      1081, 160, 1080, 1085, 1089, 1090, 1080, 1090, 1091, 1090, 34>>
\* Академия труда
DN_ACADEMY ==
    <<1040, 1082, 1072, 1076, 1077, 1084, 1080, 1103, 32, 1090, 1088, 1091, 1076, 1072>>
\* Средняя школа 5
DN_SCHOOL ==
    <<1057, 1088, 1077, 1076, 1085, 1103, 1103, 32, 1096, 1082, 1086, 1083, 1072, 32, 53>>
\* "01.09.2015"
D_2015 == <<48, 49, 46, 48, 57, 46, 50, 48, 49, 53>>
\* "01.09.2020"
D_2020 == <<48, 49, 46, 48, 57, 46, 50, 48, 50, 48>>
\* "00.00.0000"
D_ZERO == <<48, 48, 46, 48, 48, 46, 48, 48, 48, 48>>
\* "2020-09-01"
D_ISO == <<50, 48, 50, 48, 45, 48, 57, 45, 48, 49>>
\* "7701"
INN_A == <<55, 55, 48, 49>>

\* the registry records of the inputs, without their id: the two names of
\* one normalized name with every date, two other names, records with no
\* date, a record with no string for a name, one with a null date, and
\* records with an INN of their own or of their organization
DEDUP_POOL ==
    {[organization_name |-> Str(n), date_issue |-> Str(d)] :
        n \in {DN_FULL, DN_SHORT}, d \in {D_2015, D_2020, D_ZERO, D_ISO}}
    \cup {[organization_name |-> Str(DN_ACADEMY), date_issue |-> Str(D_2020)],
          [organization_name |-> Str(DN_SCHOOL), date_issue |-> Str(D_2015)]}
    \cup {[organization_name |-> Str(n)] : n \in {DN_SHORT, DN_SCHOOL}}
    \cup {[organization_name |-> None, date_issue |-> Str(D_2020)],
          [organization_name |-> Str(DN_SHORT), date_issue |-> None],
          [organization_name |-> Str(DN_FULL), date_issue |-> Str(D_2015), inn |-> INN_A],
          [organization_name |-> Str(DN_SHORT), date_issue |-> Str(D_ISO),
           organization |-> [inn |-> INN_A]]}
\* the record with its position in the dump as its id
WithId(r, i) == [k \in DOMAIN r \cup {"id"} |-> IF k = "id" THEN i ELSE r[k]]

InitDedup ==
    /\ fn_arg \in {[i \in 1..Len(rs) |-> WithId(rs[i], i)] :
                     rs \in StringsUpTo(DEDUP_POOL, MaxDedupRecords)}
    /\ fn_res = <<>>
    /\ MainOff

\* records_norm = normalize_records(records); dedup_universities(records_norm)
ApplyDedup ==
    /\ fn_res = <<>>
    /\ \E records_norm \in {normalize_records(fn_arg)} :
          \E d \in {dedup_universities(records_norm)} :
             fn_res' = <<[records_norm |-> records_norm, unique |-> d.unique, audit |-> d.audit]>>
    /\ UNCHANGED <<fn_arg, mainVars, candVars>>

NextDedup == ApplyDedup
SpecDedup == InitDedup /\ [][NextDedup]_vars

\* ============================================= build_aggregators_candidates
\* scripts/build_aggregators_candidates.py: the unmatched source names become
\* candidate records, one per normalized name.

\* VUZ_KEYWORDS = университет, академ, институт, консерват, политех, высш, школа
VUZ_KEYWORDS == {
    <<1091, 1085, 1080, 1074, 1077, 1088, 1089, 1080, 1090, 1077, 1090>>,
    <<1072, 1082, 1072, 1076, 1077, 1084>>,
    <<1080, 1085, 1089, 1090, 1080, 1090, 1091, 1090>>,
    <<1082, 1086, 1085, 1089, 1077, 1088, 1074, 1072, 1090>>,
    <<1087, 1086, 1083, 1080, 1090, 1077, 1093>>,
    <<1074, 1099, 1089, 1096>>,
    <<1096, 1082, 1086, 1083, 1072>>
}
\* the alternatives of SUBUNIT_PREFIX_RE: факультет | школа | юридический\s+институт
SUBUNIT_PREFIX_ALTS == <<
    Word(<<1092, 1072, 1082, 1091, 1083, 1100, 1090, 1077, 1090>>),
    Word(<<1096, 1082, 1086, 1083, 1072>>),
    Word(<<1102, 1088, 1080, 1076, 1080, 1095, 1077, 1089, 1082, 1080, 1081>>) \o Word(<<1080, 1085, 1089, 1090, 1080, 1090, 1091, 1090>>)
>>
\* INSTITUTE_WORD_RE = \bинститут\b, IGNORECASE
INSTITUTE_WORD_RE == <<Word(<<1080, 1085, 1089, 1090, 1080, 1090, 1091, 1090>>)>>
\* BELONGING_MARKERS = университета, академии, ранхигс, мэи, мгу, рудн, вшэ, мифи, мфти
BELONGING_MARKERS == {
    <<1091, 1085, 1080, 1074, 1077, 1088, 1089, 1080, 1090, 1077, 1090, 1072>>,
    <<1072, 1082, 1072, 1076, 1077, 1084, 1080, 1080>>,
    <<1088, 1072, 1085, 1093, 1080, 1075, 1089>>,
    <<1084, 1101, 1080>>,
    <<1084, 1075, 1091>>,
    <<1088, 1091, 1076, 1085>>,
    <<1074, 1096, 1101>>,
    <<1084, 1080, 1092, 1080>>,
    <<1084, 1092, 1090, 1080>>
}
\* INDEPENDENT_INSTITUTES_RAW
INDEPENDENT_INSTITUTES_RAW == {
    <<1080, 1085, 1089, 1090, 1080, 1090, 1091, 1090, 32, 1084, 1077, 1078, 1076, 1091, 1085,
      1072, 1088, 1086, 1076, 1085, 1099, 1093, 32, 1101, 1082, 1086, 1085, 1086, 1084, 1080,
      1095, 1077, 1089, 1082, 1080, 1093, 32, 1089, 1074, 1103, 1079, 1077, 1081>>,
    <<1084, 1077, 1078, 1076, 1091, 1085, 1072, 1088, 1086, 1076, 1085, 1099, 1081, 32, 1080,
      1085, 1089, 1090, 1080, 1090, 1091, 1090, 32, 1101, 1082, 1086, 1085, 1086, 1084, 1080,
      1082, 1080, 32, 1080, 32, 1087, 1088, 1072, 1074, 1072>>
}

\* the class [«»"'`()]
InQuoteParen(c) == c \in {171, 187, 34, 39, 96, 40, 41}

norm(s) ==
    LET s1 == Lower(Strip(s))
        s2 == ReplaceCh(s1, 1105, 1077)
        s3 == ReplaceCh(s2, NBSP, 32)
        s4 == SubClass(s3, InQuoteParen, 32)
    IN  Strip(SubRuns(s4, IsSpace))

INDEPENDENT_INSTITUTES == {norm(x) : x \in INDEPENDENT_INSTITUTES_RAW}

\* the position after the longest run of \S that starts at i
NonSpaceEnd(s, i) == SetMin({j \in i..(Len(s) + 1) : j = Len(s) + 1 \/ IsSpace(s[j])})
\* (\S+\s+){k} at position i: the position after it, or 0.  \S+ must be
\* followed by a space and \s+ by what is no space, so each takes a whole run.
RECURSIVE SkipWords(_, _, _)
SkipWords(s, i, k) ==
    IF k = 0 THEN i
    ELSE LET w == NonSpaceEnd(s, i)
             sp == SpaceEnd(s, w)
         IN  IF w = i \/ sp = w THEN 0 ELSE SkipWords(s, sp, k - 1)
\* ^(\S+\s+){0,3}(факультет|школа|юридический\s+институт)\b, IGNORECASE,
\* matched at the start of s
MatchSubunitPrefix(s) ==
    \E k \in 0..3 :
        LET i == SkipWords(s, 1, k)
        IN  /\ i # 0
            /\ \E a \in 1..Len(SUBUNIT_PREFIX_ALTS) :
                  MatchFrom(s, i, SUBUNIT_PREFIX_ALTS[a], 1, TRUE) # 0

\* "московский ", "институт", "университета", "академии"
MOSKOVSKIY_ == <<1084, 1086, 1089, 1082, 1086, 1074, 1089, 1082, 1080, 1081, 32>>
INSTITUT == <<1080, 1085, 1089, 1090, 1080, 1090, 1091, 1090>>
UNIVERSITETA == <<1091, 1085, 1080, 1074, 1077, 1088, 1089, 1080, 1090, 1077, 1090, 1072>>
AKADEMII == <<1072, 1082, 1072, 1076, 1077, 1084, 1080, 1080>>

\* n.startswith("московский ") and "институт" in n
\*     and "университета" not in n and "академии" not in n
MoscowInstitute(n) ==
    /\ HasLit(n, 1, MOSKOVSKIY_, FALSE)
    /\ Contains(n, INSTITUT)
    /\ ~Contains(n, UNIVERSITETA)
    /\ ~Contains(n, AKADEMII)

detect_is_subunit(name) ==
    LET s == norm(name)
    IN  IF s \in INDEPENDENT_INSTITUTES THEN FALSE
        ELSE IF MatchSubunitPrefix(s) THEN TRUE
        ELSE IF MoscowInstitute(s) THEN FALSE
        ELSE IF SearchAlt(s, INSTITUTE_WORD_RE, TRUE)
                /\ \E m \in BELONGING_MARKERS : Contains(s, m)
             THEN TRUE
        ELSE FALSE

looks_like_vuz(name) ==
    LET n == norm(name)
    IN  \E k \in VUZ_KEYWORDS : Contains(n, k)

\* a record whose is_branch is left false
NewCandidateNoBranch(name, key, is_sub_now) ==
    [name |-> name, name_norm |-> key, sources |-> <<>>, review |-> TRUE,
     is_subunit |-> is_sub_now, is_branch |-> FALSE]
\* the record created for a name seen for the first time (its "id", a
\* random uuid4, is left out)
NewCandidate(name, key, is_sub_now) ==
    [name |-> name, name_norm |-> key, sources |-> <<>>, review |-> TRUE,
     is_subunit |-> is_sub_now, is_branch |-> is_sub_now]
\* the record of a name seen again
MergeCandidate(rec, name, is_sub_now) ==
    LET r1 == IF is_sub_now THEN [rec EXCEPT !.is_subunit = TRUE, !.is_branch = TRUE] ELSE rec
    IN  IF Len(name) < Len(r1.name) THEN [r1 EXCEPT !.name = name] ELSE r1
\* if src and src not in rec["sources"]: rec["sources"].append(src)
AddSource(rec, src) ==
    IF src # <<>> /\ src \notin Range(rec.sources)
    THEN [rec EXCEPT !.sources = Append(@, src)] ELSE rec
\* (it.get(k) or "").strip()
StripField(it, k) ==
    LET v == DictGet(it, k, None)
    IN  IF v.is_str THEN Strip(v.val) ELSE <<>>

\* one turn of the loop over items: by_name after the item
CandidateStep(recs, it) ==
    LET src == StripField(it, "source")
        name == StripField(it, "name")
        key == norm(name)
        is_sub_now == detect_is_subunit(name)
        at == {k \in 1..Len(recs) : recs[k].name_norm = key}
    IN  IF name = <<>> THEN recs
        ELSE IF ~looks_like_vuz(name) /\ ~is_sub_now THEN recs
        ELSE IF at = {}
             THEN Append(recs, AddSource(NewCandidate(name, key, is_sub_now), src))
             ELSE [recs EXCEPT ![SetMin(at)] = AddSource(MergeCandidate(@, name, is_sub_now), src)]

\* out.sort(key=lambda r: r["name_norm"]): the keys are pairwise different
SortByNameNorm(recs) ==
    LET S == Range(recs)
    IN  [k \in 1..Len(recs) |->
            CHOOSE x \in S : Cardinality({y \in S : StrLess(y.name_norm, x.name_norm)}) = k - 1]

\* sanity check 1: rx_strict.search(r["name"]) and not r.get("is_subunit")
StrictBad(out) ==
    {k \in 1..Len(out) : MatchSubunitPrefix(out[k].name) /\ ~out[k].is_subunit}
\* sanity check 2: a subunit that looks like a 'московский ... институт'
Suspicious(out) ==
    {k \in 1..Len(out) : out[k].is_subunit /\ MoscowInstitute(norm(out[k].name))}

\* ------------------------------------------------------------ its inputs
MaxCandItems == 3

\* Факультет экономики Московского государственного университета
CN_FACULTY ==
    <<1060, 1072, 1082, 1091, 1083, 1100, 1090, 1077, 1090, 32, 1101, 1082, 1086, 1085, 1086,
      1084, 1080, 1082, 1080, 32, 1052, 1086, 1089, 1082, 1086, 1074, 1089, 1082, 1086, 1075,
      1086, 32, 1075, 1086, 1089, 1091, 1076, 1072, 1088, 1089, 1090, 1074, 1077, 1085, 1085,
      1086, 1075, 1086, 32, 1091, 1085, 1080, 1074, 1077, 1088, 1089, 1080, 1090, 1077, 1090,
      1072>>
\* Московский физико-технический институт
CN_MIPT ==
    <<1052, 1086, 1089, 1082, 1086, 1074, 1089, 1082, 1080, 1081, 32, 1092, 1080, 1079, 1080,
      1082, 1086, 45, 1090, 1077, 1093, 1085, 1080, 1095, 1077, 1089, 1082, 1080, 1081, 32,
      1080, 1085, 1089, 1090, 1080, 1090, 1091, 1090>>
\* Московский юридический институт
CN_MOSCOW_LAW ==
    <<1052, 1086, 1089, 1082, 1086, 1074, 1089, 1082, 1080, 1081, 32, 1102, 1088, 1080, 1076,
      1080, 1095, 1077, 1089, 1082, 1080, 1081, 32, 1080, 1085, 1089, 1090, 1080, 1090, 1091,
      1090>>
\* Высшая школа экономики
CN_HSE ==
    <<1042, 1099, 1089, 1096, 1072, 1103, 32, 1096, 1082, 1086, 1083, 1072, 32, 1101, 1082,
      1086, 1085, 1086, 1084, 1080, 1082, 1080>>
\* «Высшая школа экономики»
CN_HSE_QUOTED ==
    <<171, 1042, 1099, 1089, 1096, 1072, 1103, 32, 1096, 1082, 1086, 1083, 1072, 32, 1101,
      1082, 1086, 1085, 1086, 1084, 1080, 1082, 1080, 187>>
\* Филиал Московского государственного университета в Севастополе
CN_BRANCH ==
    <<1060, 1080, 1083, 1080, 1072, 1083, 32, 1052, 1086, 1089, 1082, 1086, 1074, 1089, 1082,
      1086, 1075, 1086, 32, 1075, 1086, 1089, 1091, 1076, 1072, 1088, 1089, 1090, 1074, 1077,
      1085, 1085, 1086, 1075, 1086, 32, 1091, 1085, 1080, 1074, 1077, 1088, 1089, 1080, 1090,
      1077, 1090, 1072, 32, 1074, 32, 1057, 1077, 1074, 1072, 1089, 1090, 1086, 1087, 1086,
      1083, 1077>>
\* Институт права Башкирского государственного университета
CN_INSTITUTE_OF ==
    <<1048, 1085, 1089, 1090, 1080, 1090, 1091, 1090, 32, 1087, 1088, 1072, 1074, 1072, 32,
      1041, 1072, 1096, 1082, 1080, 1088, 1089, 1082, 1086, 1075, 1086, 32, 1075, 1086, 1089,
      1091, 1076, 1072, 1088, 1089, 1090, 1074, 1077, 1085, 1085, 1086, 1075, 1086, 32, 1091,
      1085, 1080, 1074, 1077, 1088, 1089, 1080, 1090, 1077, 1090, 1072>>
\* Колледж связи
CN_COLLEGE ==
    <<1050, 1086, 1083, 1083, 1077, 1076, 1078, 32, 1089, 1074, 1103, 1079, 1080>>
\* МГУ(Москва) высший вечерний факультет
CN_PARENS ==
    <<1052, 1043, 1059, 40, 1052, 1086, 1089, 1082, 1074, 1072, 41, 32, 1074, 1099, 1089, 1096,
      1080, 1081, 32, 1074, 1077, 1095, 1077, 1088, 1085, 1080, 1081, 32, 1092, 1072, 1082,
      1091, 1083, 1100, 1090, 1077, 1090>>
\* "postupi", "ucheba"
SRC_POSTUPI == <<112, 111, 115, 116, 117, 112, 105>>
SRC_UCHEBA == <<117, 99, 104, 101, 98, 97>>

CAND_NAMES == {CN_FACULTY, CN_MIPT, CN_MOSCOW_LAW, CN_HSE, CN_HSE_QUOTED, CN_BRANCH,
               CN_INSTITUTE_OF, CN_COLLEGE, CN_PARENS}
\* the items of unmatched_aggregators.json: every name under one source, two
\* of them under a second source, an item with no source and an item with
\* no name
CAND_ITEMS ==
    {[name |-> Str(n), source |-> Str(SRC_POSTUPI)] : n \in CAND_NAMES}
    \cup {[name |-> Str(n), source |-> Str(SRC_UCHEBA)] : n \in {CN_FACULTY, CN_HSE_QUOTED}}
    \cup {[name |-> Str(CN_FACULTY)], [source |-> Str(SRC_POSTUPI)]}
\* the parsed file: a list of items, a JSON value that is no list, or no file
CAND_INPUTS ==
    {[exists |-> TRUE, is_list |-> TRUE, items |-> r] : r \in StringsUpTo(CAND_ITEMS, MaxCandItems)}
        \cup {Missing, NotList}

\* ----------------------------------------------------------- its main()
\* the file is read: SystemExit when it is missing or holds no list
CandLoad ==
    /\ cand_pc = "start"
    /\ cand_pc' = IF ~cand_input.exists THEN "exit_missing"
                  ELSE IF ~cand_input.is_list THEN "exit_not_list"
                  ELSE "loop"
    /\ cand_pos' = 1
    /\ UNCHANGED <<cand_input, by_name, cand_out, mainVars, fnVars>>

\* for it in items: one item
CandItem ==
    /\ cand_pc = "loop"
    /\ cand_pos <= Len(cand_input.items)
    /\ \E recs \in {CandidateStep(by_name, cand_input.items[cand_pos])} : by_name' = recs
    /\ cand_pos' = cand_pos + 1
    /\ UNCHANGED <<cand_input, cand_pc, cand_out, mainVars, fnVars>>

\* after the loop: the list is sorted and written, then the sanity checks
\* run and either of them ends the run with SystemExit
CandFinish ==
    /\ cand_pc = "loop"
    /\ cand_pos > Len(cand_input.items)
    /\ \E out \in {SortByNameNorm(by_name)} :
          /\ cand_out' = out
          /\ cand_pc' = IF StrictBad(out) # {} THEN "exit_strict"
                        ELSE IF Suspicious(out) # {} THEN "exit_suspicious"
                        ELSE "done"
    /\ UNCHANGED <<cand_input, cand_pos, by_name, mainVars, fnVars>>

InitCand ==
    /\ cand_input \in CAND_INPUTS
    /\ cand_pc = "start" /\ cand_pos = 0
    /\ by_name = <<>> /\ cand_out = <<>>
    /\ official = [is_list |-> FALSE, items |-> <<>>]
    /\ files = <<>>
    /\ FUZZ = "None"
    /\ traced = FALSE
    /\ MainIdle
    /\ FnIdle

NextCand ==
    \/ CandLoad
    \/ CandItem
    \/ CandFinish

SpecCand == InitCand /\ [][NextCand]_vars

\* ------------------------------------------- detect_is_subunit as a function
MaxNameWords == 3

\* московский юридический институт факультет школа университета мгу экономики (филиал)
SUBUNIT_WORDS == {
    <<1084, 1086, 1089, 1082, 1086, 1074, 1089, 1082, 1080, 1081>>,
    <<1102, 1088, 1080, 1076, 1080, 1095, 1077, 1089, 1082, 1080, 1081>>,
    <<1080, 1085, 1089, 1090, 1080, 1090, 1091, 1090>>,
    <<1092, 1072, 1082, 1091, 1083, 1100, 1090, 1077, 1090>>,
    <<1096, 1082, 1086, 1083, 1072>>,
    <<1091, 1085, 1080, 1074, 1077, 1088, 1089, 1080, 1090, 1077, 1090, 1072>>,
    <<1084, 1075, 1091>>,
    <<1101, 1082, 1086, 1085, 1086, 1084, 1080, 1082, 1080>>,
    <<40, 1092, 1080, 1083, 1080, 1072, 1083, 41>>
}

InitSubunit ==
    /\ fn_arg \in {Join(w) : w \in StringsUpTo(SUBUNIT_WORDS, MaxNameWords)}
                     \cup INDEPENDENT_INSTITUTES_RAW \cup CAND_NAMES
    /\ fn_res = <<>>
    /\ MainOff

ApplyDetectIsSubunit ==
    /\ fn_res = <<>>
    /\ fn_res' = <<detect_is_subunit(fn_arg)>>
    /\ UNCHANGED <<fn_arg, mainVars, candVars>>

NextSubunit == ApplyDetectIsSubunit
SpecSubunit == InitSubunit /\ [][NextSubunit]_vars

\* ----------------------------------------------------------- properties

\* C1: norm_text is idempotent: for every string s, also one with an
\* upper-case Ё, an NBSP, a dash or punctuation,
\* norm_text(norm_text(s)) = norm_text(s).  (SpecNorm)
C1_NormIdempotent ==
    Len(fn_res) = 2 => fn_res[2] = fn_res[1]

\* C2: the keys are idempotent: for every string s,
\* official_key(official_key(s)) = official_key(s) and
\* agg_key(agg_key(s)) = agg_key(s); a second pass removes nothing.  (SpecKey)
C2_KeyIdempotent ==
    \A f \in {"official_key", "agg_key"} :
        (fn_arg.fn = f /\ Len(fn_res) = 2) => fn_res[2] = fn_res[1]

\* C3: every record of the enriched registry whose match_type is "exact" has
\* match_score 100.
C3_ExactScore100 ==
    \A i \in 1..Len(enriched) :
        enriched[i].match.match_type = "exact" => enriched[i].match.match_score = 100
\* an exact match by the main key and one by an alias have been recorded
C3_Witness ==
    /\ \E i \in 1..Len(enriched) :
          /\ enriched[i].match.match_type = "exact"
          /\ enriched[i].match.matched_via = "official_name"
    /\ \E i \in 1..Len(enriched) :
          /\ enriched[i].match.match_type = "exact"
          /\ enriched[i].match.matched_via = "official_alias"

\* C4: the enriched registry holds exactly one record for every valid record
\* of the registry read so far, in the order of the registry, each with one
\* match_type of exact, fuzzy, none; after every record, and in the report,
\* matched_exact + matched_fuzzy + unmatched_official is the number of the
\* enriched records.  A valid record is an object with a non-empty
\* organization name: one without a name is to be skipped.
C4_Totality ==
    pc \in {"loop", "done"} =>
        LET valid(item) ==
                /\ item.type = "dict"
                /\ DictGet(item.val, "organization_name", <<>>) # <<>>
            read == SelectSeq(SubSeq(official.items, 1, pos - 1), valid)
        IN  /\ Len(enriched) = Len(read)
            /\ \A i \in 1..Len(enriched) :
                  /\ \A f \in DOMAIN read[i].val : enriched[i][f] = read[i].val[f]
                  /\ enriched[i].match.match_type \in {"exact", "fuzzy", "none"}
            /\ exact_matches + fuzzy_matches + none_matches = Len(enriched)
            /\ pc = "done" =>
                  report.matched_exact + report.matched_fuzzy + report.unmatched_official
                      = report.official_total

\* C5: a record is "fuzzy" only with a score of at least 90 and with the guard
\* passing for the query key (the main key, or the key of the alias the match
\* came by), the key of the matched name and that score.
C5_FuzzyAccepted ==
    \A i \in 1..Len(enriched) :
        LET m == enriched[i].match
            query == IF m.matched_via = "official_name" THEN m.official_key
                     ELSE OfficialKey(MEMO, m.matched_official_alias)
        IN  m.match_type = "fuzzy" =>
                /\ m.match_score >= 90
                /\ PassesFuzzyGuard(MEMO, query, AggKey(MEMO, m.matched_name), m.match_score)
\* a fuzzy match by the main key and one by an alias have been recorded
C5_Witness ==
    /\ \E i \in 1..Len(enriched) :
          /\ enriched[i].match.match_type = "fuzzy"
          /\ enriched[i].match.matched_via = "official_name"
    /\ \E i \in 1..Len(enriched) :
          /\ enriched[i].match.match_type = "fuzzy"
          /\ enriched[i].match.matched_via = "official_alias"

\* C6: the guard passes exactly when (a) the significant tokens of the two
\* keys (not generic, of length at least 3) share at least 1 token if the
\* score is at least 97 and at least 2 tokens otherwise, and (b) every anchor
\* among the significant tokens of the candidate is among those of the query.
\* (SpecGuard)
C6_GuardRule ==
    Len(fn_res) >= 1 =>
        LET sig(key) == {x \in Range(Split(key)) : x \notin GENERIC_TOKENS /\ Len(x) >= 3}
            q == sig(fn_arg.query_key)
            b == sig(fn_arg.best_key)
            a == Cardinality(q \cap b) >= (IF fn_arg.score >= 97 THEN 1 ELSE 2)
            anchors == \A t \in b \cap ANCHOR_TOKENS : t \in q
        IN  fn_res[1].passes <=> (a /\ anchors)
\* the guard has passed on two shared tokens below 97, the candidate having
\* an anchor
C6_Witness ==
    /\ Len(fn_res) >= 1
    /\ fn_res[1].passes
    /\ fn_arg.score = 96
    /\ fn_arg.best_key = Join(<<GUARD_WORDS[1], GUARD_WORDS[2]>>)

\* C7: if the guard passes for a query and a candidate at a score S, it passes
\* at every score S' >= S after one more significant token, an anchor or not,
\* is added to both keys.  (SpecGuard)
C7_GuardMonotone ==
    (/\ Len(fn_res) = 2
     /\ fn_res[1].passes
     /\ fn_res[2].token \notin GENERIC_TOKENS
     /\ Len(fn_res[2].token) >= 3)
        => fn_res[2].passes
\* the guard passed, and passes at a higher score with the anchor added that
\* neither key had
C7_Witness ==
    /\ Len(fn_res) = 2
    /\ fn_res[1].passes
    /\ fn_res[2].passes
    /\ fn_res[2].token = GUARD_WORDS[1]
    /\ fn_res[2].token \in ANCHOR_TOKENS
    /\ fn_res[2].token \notin Range(Split(fn_arg.query_key))
    /\ fn_res[2].token \notin Range(Split(fn_arg.best_key))
    /\ fn_res[2].score > fn_res[1].score

\* C8: when no key of the record is in the index and the best candidate of
\* some query key (the main key or an alias key) has a score of at least 90 and
\* passes the guard, the record is "fuzzy" and reports the passing pair of the
\* highest score, whatever the other query keys got.  (SpecTraced)
C8_BestPassingPair ==
    (pc \in {"loop", "done"} /\ pos = 2 /\ fuzzy_calls # <<>>) =>
        LET passing == {c \in Range(fuzzy_calls) :
                           /\ c.result.score >= 90
                           /\ c.result.key # <<>>
                           /\ PassesFuzzyGuard(MEMO, c.query, c.result.key, c.result.score)}
            m == enriched[1].match
        IN  passing # {} =>
                /\ m.match_type = "fuzzy"
                /\ \E c \in passing :
                      /\ \A d \in passing : d.result.score <= c.result.score
                      /\ m.match_score = c.result.score
                      /\ AggKey(MEMO, m.matched_name) = c.result.key

\* C9: the exact lookup tries the main key, then the alias keys in the order
\* of the alias generator, and the first key that is in the index wins; a
\* record one of whose keys is in the index is "exact", never "fuzzy" or
\* "none".
C9_ExactOrder ==
    \A i \in 1..Len(enriched) :
        LET org == DictGet(enriched[i], "organization_name", <<>>)
            m == enriched[i].match
            aliases == Aliases(MEMO, org)
            keys == <<OfficialKey(MEMO, org)>>
                        \o [j \in 1..Len(aliases) |-> OfficialKey(MEMO, aliases[j])]
            present == {j \in 1..Len(keys) : keys[j] \in DOMAIN key_to_idxs}
        IN  IF present = {} THEN m.match_type # "exact"
            ELSE /\ m.match_type = "exact"
                 /\ AggKey(MEMO, m.matched_name) = keys[SetMin(present)]
                 /\ IF SetMin(present) = 1
                    THEN /\ m.matched_via = "official_name"
                         /\ m.matched_official_alias = <<>>
                    ELSE /\ m.matched_via = "official_alias"
                         /\ m.matched_official_alias = aliases[SetMin(present) - 1]
\* an exact match by an alias has been recorded while the keys of two aliases
\* were in the index
C9_Witness ==
    \E i \in 1..Len(enriched) :
        LET org == DictGet(enriched[i], "organization_name", <<>>)
            aliases == Aliases(MEMO, org)
        IN  /\ enriched[i].match.match_type = "exact"
            /\ enriched[i].match.matched_via = "official_alias"
            /\ \E j, k \in 1..Len(aliases) :
                  /\ OfficialKey(MEMO, aliases[j]) # OfficialKey(MEMO, aliases[k])
                  /\ OfficialKey(MEMO, aliases[j]) \in DOMAIN key_to_idxs
                  /\ OfficialKey(MEMO, aliases[k]) \in DOMAIN key_to_idxs

\* C10: with the registry record of the full name of the Moscow State
\* University and the single source name "МГУ имени Ломоносова", the record is
\* "fuzzy" or "exact", whatever score the fuzzy scorer gives.
C10_ScenarioA ==
    (/\ pc = "done"
     /\ FUZZ = "rapidfuzz"
     /\ official.items = <<Dict([organization_name |-> N_MSU, id |-> 1])>>
     /\ Len(union) = 1
     /\ union[1].name = S_MGU)
        => enriched[1].match.match_type \in {"fuzzy", "exact"}

\* C11: a record ends with match_type "none" and one entry in the
\* fuzzy-rejected list exactly when none of its keys is in the index and its
\* best fuzzy candidate (the first of the highest score over the main key and
\* the alias keys) has a score of at least 90 and fails the guard; the entry
\* lists that candidate, and its intersection is the intersection of the two
\* token sets it lists.  (SpecTraced)
C11_NearMissListed ==
    (pc \in {"loop", "done"} /\ pos = 2 /\ official.items[1].type = "dict") =>
        LET org == DictGet(official.items[1].val, "organization_name", <<>>)
            aliases == Aliases(MEMO, org)
            hit == \/ OfficialKey(MEMO, org) \in DOMAIN key_to_idxs
                   \/ \E j \in 1..Len(aliases) :
                         OfficialKey(MEMO, aliases[j]) \in DOMAIN key_to_idxs
            top == SetMin({i \in 1..Len(fuzzy_calls) :
                              \A j \in 1..Len(fuzzy_calls) :
                                  fuzzy_calls[j].result.score <= fuzzy_calls[i].result.score})
            best == fuzzy_calls[top].result
            nearMiss == /\ ~hit
                        /\ best.score >= 90
                        /\ best.key # <<>>
                        /\ ~PassesFuzzyGuard(MEMO, fuzzy_calls[top].query, best.key, best.score)
        IN  /\ (enriched[1].match.match_type = "none" /\ Len(fuzzy_rejected) = 1) <=> nearMiss
            /\ Len(fuzzy_rejected) <= 1
            /\ \A k \in 1..Len(fuzzy_rejected) :
                  /\ fuzzy_rejected[k].org = org
                  /\ fuzzy_rejected[k].best_key = best.key
                  /\ fuzzy_rejected[k].best_score = best.score
                  /\ fuzzy_rejected[k].intersection =
                         fuzzy_rejected[k].q_sig \cap fuzzy_rejected[k].b_sig
\* a query that shares only generic tokens with its best candidate, at the
\* score 93, has been rejected and listed
C11_Witness ==
    /\ pos = 2
    /\ Len(enriched) = 1
    /\ enriched[1].match.match_type = "none"
    /\ Len(fuzzy_rejected) = 1
    /\ fuzzy_rejected[1].best_score = 93
    /\ fuzzy_rejected[1].intersection = {}
    /\ LET shared == Range(Split(fuzzy_rejected[1].guard_query))
                        \cap Range(Split(fuzzy_rejected[1].best_key))
       IN  shared # {} /\ shared \subseteq GENERIC_TOKENS

\* C12: every accepted fuzzy match with a score below 96 has review = TRUE in
\* the enriched registry.
C12_LowScoreReview ==
    \A i \in 1..Len(enriched) :
        (enriched[i].match.match_type = "fuzzy" /\ enriched[i].match.match_score < 96)
            => enriched[i].match.review
\* a fuzzy match at 93 is under review, one at 96 is not
C12_Witness ==
    /\ \E i \in 1..Len(enriched) :
          /\ enriched[i].match.match_type = "fuzzy"
          /\ enriched[i].match.match_score = 93
          /\ enriched[i].match.review
    /\ \E i \in 1..Len(enriched) :
          /\ enriched[i].match.match_type = "fuzzy"
          /\ enriched[i].match.match_score = 96
          /\ ~enriched[i].match.review

\* C13: the positions of the union claimed so far are exactly those whose
\* key is the key of the matched name of an exact or fuzzy record (every
\* occurrence of that key; a "none" record claims nothing), and the unmatched
\* list is, in order, the rows of the union at the other positions.
C13_UnmatchedPartition ==
    LET claimed == {i \in 1..Len(union) :
                       \E j \in 1..Len(enriched) :
                           /\ enriched[j].match.match_type \in {"exact", "fuzzy"}
                           /\ AggKey(MEMO, union[i].name)
                                  = AggKey(MEMO, enriched[j].match.matched_name)}
    IN  /\ matched_agg_idx = claimed
        /\ pc = "done" =>
              /\ Len(unmatched) = Len(union) - Cardinality(claimed)
              /\ \A k \in 1..Len(unmatched) :
                    \E i \in (1..Len(union)) \ claimed :
                        /\ Cardinality({j \in (1..i) \ claimed : TRUE}) = k
                        /\ unmatched[k] = [name |-> union[i].name,
                                           source |-> union[i].source,
                                           key |-> AggKey(MEMO, union[i].name)]
\* at the end one match has claimed two occurrences of one key, a record is
\* "none", and a row is left unmatched
C13_Witness ==
    /\ pc = "done"
    /\ Len(unmatched) >= 1
    /\ \E i, j \in matched_agg_idx :
          i # j /\ AggKey(MEMO, union[i].name) = AggKey(MEMO, union[j].name)
    /\ \E i \in 1..Len(enriched) : enriched[i].match.match_type = "none"

\* C14: dedup losslessness: for every input list of registry records the
\* sources lists of the audit groups hold exactly the input records: every
\* input record is in exactly one group, once, and every member of a group
\* is an input record.  (SpecDedup)
C14_DedupLossless ==
    fn_res # <<>> =>
        LET records == fn_res[1].records_norm
            audit == fn_res[1].audit
            \* the places <<g, k>>: member k of the sources of group g
            places == {p \in (1..Len(audit)) \X (1..Len(records)) :
                          p[2] <= Len(audit[p[1]].sources)}
        IN  /\ \A i \in 1..Len(records) :
                  Cardinality({p \in places : audit[p[1]].sources[p[2]] = records[i]}) = 1
            /\ \A p \in places :
                  \E i \in 1..Len(records) : audit[p[1]].sources[p[2]] = records[i]

\* C15: in every dedup group the representative is a member of the group, its
\* (year, month, day) tuple is the greatest of the group (a date that is
\* missing or does not parse counts as (0,0,0)), and it is the first member
\* with that tuple; the audit keeps every member.  (SpecDedup)
C15_LatestFirstSeen ==
    fn_res # <<>> =>
        LET audit == fn_res[1].audit
            unique == fn_res[1].unique
        IN  /\ Len(unique) = Len(audit)
            /\ \A g \in 1..Len(audit) :
                  LET items == audit[g].sources
                  IN  \E k \in 1..Len(items) :
                         /\ items[k].id = unique[g].id
                         /\ items[k].id = audit[g].representative_id
                         /\ unique[g].date_issue = DictGet(items[k], "date_issue", None)
                         /\ unique[g].sources_count = Len(items)
                         /\ \A j \in 1..Len(items) : ~TupleGt(DateOf(items[j]), DateOf(items[k]))
                         /\ \A j \in 1..(k - 1) : DateOf(items[j]) # DateOf(items[k])
\* Scenario D: a group of a record dated 01.09.2015 followed by one dated
\* 01.09.2020 under the same normalized name; the second is the
\* representative and the audit holds both
C15_Witness ==
    /\ fn_res # <<>>
    /\ Len(fn_arg) = 2
    /\ fn_arg[1].organization_name = Str(DN_FULL)
    /\ DictGet(fn_arg[1], "date_issue", None) = Str(D_2015)
    /\ fn_arg[2].organization_name = Str(DN_SHORT)
    /\ DictGet(fn_arg[2], "date_issue", None) = Str(D_2020)
    /\ Len(fn_res[1].unique) = 1
    /\ fn_res[1].unique[1].id = 2
    /\ fn_res[1].unique[1].date_issue = Str(D_2020)
    /\ Len(fn_res[1].audit[1].sources) = 2

\* C16: a member whose issue date is missing or does not parse as DD.MM.YYYY
\* is the representative of its group only if no member of the group has a
\* date that parses; and every group has exactly one representative.
\* (SpecDedup)
C16_UnparseableOnlyIfAll ==
    fn_res # <<>> =>
        LET audit == fn_res[1].audit
            unique == fn_res[1].unique
            parses(it) == parse_ddmmyyyy(DictGet(it, "date_issue", Str(<<>>))) # None
        IN  /\ Len(unique) = Len(audit)
            /\ \A g \in 1..Len(audit) :
                  /\ unique[g].group_key = audit[g].group_key
                  /\ \A h \in 1..Len(audit) : audit[h].group_key = audit[g].group_key => h = g
                  /\ \A k \in 1..Len(audit[g].sources) :
                        (audit[g].sources[k].id = audit[g].representative_id
                            /\ ~parses(audit[g].sources[k]))
                        => \A j \in 1..Len(audit[g].sources) : ~parses(audit[g].sources[j])

\* C17: subunit closure: every candidate record, when it is created and
\* after every merge of a further occurrence of its normalized name, and in
\* the list written, has is_branch whenever it has is_subunit.  (SpecCand)
C17_SubunitClosure ==
    /\ \A k \in 1..Len(by_name) : by_name[k].is_subunit => by_name[k].is_branch
    /\ \A k \in 1..Len(cand_out) : cand_out[k].is_subunit => cand_out[k].is_branch
\* Scenario B: the faculty name seen under two sources, merged into one
\* record that is a subunit and a branch
C17_Witness ==
    \E k \in 1..Len(by_name) :
        /\ by_name[k].name = CN_FACULTY
        /\ Len(by_name[k].sources) = 2
        /\ by_name[k].is_subunit
        /\ by_name[k].is_branch

\* C18: detect_is_subunit(name) is true if and only if the normalized name
\* starts with a structural-unit word (факультет, школа, юридический
\* институт, институт) and contains a belonging marker; in particular a name
\* with no belonging marker is never a subunit.  (SpecSubunit)
C18_SubunitIffUnitAndMarker ==
    fn_res # <<>> =>
        LET s == norm(fn_arg)
            units == Range(SUBUNIT_PREFIX_ALTS) \cup Range(INSTITUTE_WORD_RE)
            starts == \E u \in units : MatchFrom(s, 1, u, 1, FALSE) # 0
            marker == \E m \in BELONGING_MARKERS : Contains(s, m)
        IN  fn_res[1] <=> (starts /\ marker)

\* C19: a candidate whose normalized name is 'московский <word(s)> институт'
\* with neither 'университета' nor 'академии' in it is never a subunit, so
\* the run never ends in the sanity check on suspicious subunits.  (SpecCand)
C19_MoscowInstituteNotSubunit ==
    /\ cand_pc # "exit_suspicious"
    /\ \A k \in 1..Len(by_name) :
          LET w == Split(norm(by_name[k].name))
              form == /\ Len(w) >= 3
                      /\ w[1] = SubSeq(MOSKOVSKIY_, 1, Len(MOSKOVSKIY_) - 1)
                      /\ w[Len(w)] = INSTITUT
                      /\ ~Contains(by_name[k].name_norm, UNIVERSITETA)
                      /\ ~Contains(by_name[k].name_norm, AKADEMII)
          IN  form => ~by_name[k].is_subunit

\* C20: every record with an is_branch flag whose name contains a branch
\* word (филиал, представительств*, отделени*) has is_branch = true: the
\* candidate records built from the unmatched names, and the enriched
\* records for the registry name and the matched name.  (SpecCand)
C20_BranchWordIsBranch ==
    /\ \A k \in 1..Len(by_name) : is_branch_name(by_name[k].name) => by_name[k].is_branch
    /\ \A k \in 1..Len(cand_out) : is_branch_name(cand_out[k].name) => cand_out[k].is_branch
    /\ \A k \in 1..Len(enriched) :
          (\/ is_branch_name(enriched[k].organization_name)
           \/ is_branch_name(enriched[k].match.matched_name)) => enriched[k].match.is_branch

\* C21: a registry record whose organization name is missing or empty is
\* skipped: no record of the enriched registry has a blank name, and a record
\* with a blank name is never matched to a source name.
C21_BlankNameSkipped ==
    \A k \in 1..Len(enriched) :
        /\ DictGet(enriched[k], "organization_name", <<>>) # <<>>
        /\ DictGet(enriched[k], "organization_name", <<>>) = <<>>
               => enriched[k].match.match_type = "none"

\* C22: an input of a wrong top-level shape ends the run with an error and
\* nothing is derived from it: the registry that is no list, and every source
\* file that is no list or lists an item that is no string.
C22_MalformedAborts ==
    LET bad_source(src) ==
            /\ files[src].exists
            /\ \/ ~files[src].is_list
               \/ \E i \in 1..Len(files[src].items) : ~files[src].items[i].is_str
    IN  (~official.is_list \/ \E src \in DOMAIN files : bad_source(src)) =>
            /\ pc \in {"start", "error"}
            /\ union = <<>> /\ enriched = <<>> /\ unmatched = <<>> /\ report = <<>>

\* C29: no exact match goes through an empty key: a record whose main key is
\* empty is not exact through its name, and an exact match through an alias
\* has an alias whose key is not empty.
C29_NoExactByEmptyKey ==
    \A k \in 1..Len(enriched) :
        LET m == enriched[k].match
        IN  m.match_type = "exact" =>
                /\ m.matched_via = "official_name" => m.official_key # <<>>
                /\ m.matched_via = "official_alias" =>
                       OfficialKey(MEMO, m.matched_official_alias) # <<>>

\* C23: without the fuzzy library the run completes without fuzzy matching:
\* a registry that is a list is never refused, every record is exact, by
\* the lookup of its main key and of its alias keys in the index, or none,
\* no record is fuzzy and the fuzzy-rejected list stays empty.
C23_NoLibraryNoFuzzy ==
    FUZZ = "None" =>
        /\ official.is_list => pc # "error"
        /\ fuzzy_matches = 0
        /\ fuzzy_rejected = <<>>
        /\ \A k \in 1..Len(enriched) :
              LET m == enriched[k].match
                  hit == \/ m.official_key \in DOMAIN key_to_idxs
                         \/ \E ak \in Range(m.official_alias_keys) : ak \in DOMAIN key_to_idxs
              IN  /\ m.match_type \in {"exact", "none"}
                  /\ m.match_type = "exact" <=> hit
                  /\ m.match_type = "none" => m.match_score = 0 /\ m.matched_name = <<>>
\* a finished run without the library: one record exact, and one none
\* whose key is not empty while the index holds keys to compare it with
C23_Witness ==
    /\ FUZZ = "None"
    /\ pc = "done"
    /\ choices # <<>>
    /\ \E j, k \in 1..Len(enriched) :
          /\ enriched[j].match.match_type = "exact"
          /\ enriched[k].match.match_type = "none"
          /\ enriched[k].match.official_key # <<>>

\* C24: the fuzzy outcome of a record is determined by the inputs and by the
\* answers of the scorer: the accepted candidate is the first of the highest
\* score in the order main key, then the aliases in their order (the main
\* key wins a tie with an alias, an earlier alias a tie with a later one);
\* the match carries that score, that way and that alias, and the name shown
\* is the first row of the union that has the matched key.  (SpecTraced)
C24_FuzzyTieOrder ==
    (pc \in {"loop", "done"} /\ pos = 2 /\ official.items[1].type = "dict"
        /\ enriched[1].match.match_type = "fuzzy") =>
        LET m == enriched[1].match
            org == DictGet(official.items[1].val, "organization_name", <<>>)
            aliases == Aliases(MEMO, org)
            asked == SelectSeq(aliases, LAMBDA a : OfficialKey(MEMO, a) # <<>>)
            top == SetMin({i \in 1..Len(fuzzy_calls) :
                              \A j \in 1..Len(fuzzy_calls) :
                                  fuzzy_calls[j].result.score <= fuzzy_calls[i].result.score})
            best == fuzzy_calls[top].result
            rows == {i \in 1..Len(union) : AggKey(MEMO, union[i].name) = best.key}
        IN  /\ Len(fuzzy_calls) = Len(asked) + 1
            /\ m.match_score = best.score
            /\ m.matched_via = (IF top = 1 THEN "official_name" ELSE "official_alias")
            /\ m.matched_official_alias = (IF top = 1 THEN <<>> ELSE asked[top - 1])
            /\ rows # {}
            /\ m.matched_name = union[SetMin(rows)].name
            /\ m.aggregator_sources = SortedSources({union[i].source : i \in rows})
\* a fuzzy match by the main key whose score the query of an alias reached
\* as well, the matched key held by two rows of different names
C24_Witness ==
    /\ pos = 2
    /\ Len(enriched) = 1
    /\ enriched[1].match.match_type = "fuzzy"
    /\ enriched[1].match.matched_via = "official_name"
    /\ \E j \in 2..Len(fuzzy_calls) :
          /\ fuzzy_calls[j].result.score = fuzzy_calls[1].result.score
          /\ fuzzy_calls[j].query # fuzzy_calls[1].query
    /\ \E a, b \in key_to_idxs[fuzzy_calls[1].result.key] : union[a].name # union[b].name

\* C28: a record whose organization name, of a key that is not empty, is
\* character for character the name of a row of the union is an exact match
\* of score 100.  (SpecTraced)
C28_IdenticalNameExact ==
    (pc \in {"loop", "done"} /\ pos = 2 /\ official.items[1].type = "dict") =>
        LET org == DictGet(official.items[1].val, "organization_name", <<>>)
        IN  (/\ OfficialKey(MEMO, org) # <<>>
             /\ \E i \in 1..Len(union) : union[i].name = org) =>
                /\ enriched[1].match.match_type = "exact"
                /\ enriched[1].match.match_score = 100

\* C25: every alias build_official_aliases returns passes the filter: it
\* has at least 8 characters, its key is not empty, is no single generic
\* institution word, is not a key of one or two tokens that ends in such a
\* word, and is not in the blacklist of generic keys; so do the variants the
\* removal of "Российской Федерации" / "РФ" adds.  (SpecAlias)
C25_AliasesPassFilter ==
    fn_res # <<>> =>
        \A i \in 1..Len(fn_res[1]) :
            LET a == fn_res[1][i]
                k == official_key(a)
                toks == Split(k)
            IN  /\ Len(a) >= 8
                /\ k # <<>>
                /\ k \notin FORBIDDEN_ALIAS_KEYS
                /\ ~(Len(toks) <= 2 /\ toks[Len(toks)] \in FORBIDDEN_ALIAS_KEYS)
                /\ k \notin GENERIC_BAD
\* a name with "РФ" or "Российской Федерации" got an alias that is the name
\* without it, next to the alias with it
C25_Witness ==
    /\ fn_res # <<>>
    /\ Len(fn_res[1]) >= 2
    /\ \E i \in 1..Len(fn_res[1]) :
          /\ fn_res[1][i] # fn_arg
          /\ fn_res[1][i] = _compact(SubAltFrom(fn_arg, 1, RF_RE, TRUE))

\* C26: the outcome of a record depends on the record and on the key index
\* alone, in whatever order the records are processed.  The index stays the
\* index of the rows of the union; two records with the same fields get the
\* same match; the matched rows are the union, over the records, of the rows
\* of each record's matched key, and the counts are the numbers of records of
\* each outcome.  When the registry is run again with its items in another
\* order, every record gets the enriched record it got in the first run,
\* after any number of records of the second run, and the second run ends
\* with the same near-misses, the same unmatched rows and the same report.
\* (SpecReorder)
C26_OrderIndependent ==
    /\ pc \in {"loop", "done"} =>
        LET n == Len(enriched)
            keyOf(i) == AggKey(MEMO, union[i].name)
            rowsOf(k) ==
                IF enriched[k].match.found_in_aggregators
                THEN {i \in 1..Len(union) :
                         keyOf(i) = AggKey(MEMO, enriched[k].match.matched_name)}
                ELSE {}
            of(t) == {k \in 1..n : enriched[k].match.match_type = t}
        IN  /\ DOMAIN key_to_idxs = {keyOf(i) : i \in 1..Len(union)}
            /\ \A key \in DOMAIN key_to_idxs :
                  key_to_idxs[key] = {i \in 1..Len(union) : keyOf(i) = key}
            /\ \A j, k \in 1..n :
                  [enriched[j] EXCEPT !.match = <<>>] = [enriched[k] EXCEPT !.match = <<>>]
                      => enriched[j].match = enriched[k].match
            /\ matched_agg_idx = UNION {rowsOf(k) : k \in 1..n}
            /\ exact_matches = Cardinality(of("exact"))
            /\ fuzzy_matches = Cardinality(of("fuzzy"))
            /\ none_matches = Cardinality(of("none"))
    /\ (first_run.done /\ pc \in {"loop", "done"}) =>
        LET a == first_run.items
            b == official.items
            p == first_run.perm
            at(items, i) == Cardinality({j \in 1..i : items[j].type = "dict"})
        IN  /\ Len(b) = Len(a)
            /\ \A i \in 1..Len(b) : b[i] = a[p[i]]
            /\ \A i \in 1..(pos - 1) :
                  b[i].type = "dict" =>
                      enriched[at(b, i)] = first_run.enriched[at(a, p[i])]
            /\ pc = "done" =>
                  /\ Len(enriched) = Len(first_run.enriched)
                  /\ Len(fuzzy_rejected) = Len(first_run.fuzzy_rejected)
                  /\ Range(fuzzy_rejected) = Range(first_run.fuzzy_rejected)
                  /\ unmatched = first_run.unmatched
                  /\ report = first_run.report
\* the second run is over, on a registry in another order than the first:
\* its records come out in another order, one an exact match, one a fuzzy
\* match and one without a match
C26_Witness ==
    /\ first_run.done
    /\ pc = "done"
    /\ official.items # first_run.items
    /\ enriched # first_run.enriched
    /\ \E i, j, k \in 1..Len(enriched) :
          /\ enriched[i].match.match_type = "exact"
          /\ enriched[j].match.match_type = "fuzzy"
          /\ enriched[k].match.match_type = "none"
\* C27: the enriched record of a registry record has the fields of the
\* record, each with the value it has in the registry, and the field match
\* besides.  (SpecTraced)
C27_InputFieldsKept ==
    (pc \in {"loop", "done"} /\ pos = 2 /\ official.items[1].type = "dict") =>
        LET rec == official.items[1].val
        IN  /\ Len(enriched) = 1
            /\ DOMAIN enriched[1] = DOMAIN rec \cup {"match"}
            /\ \A f \in DOMAIN rec : enriched[1][f] = rec[f]

\* C30: the match fields of every enriched record agree: match_type is
\* "none" exactly when found_in_aggregators is false and exactly when
\* matched_via is "", and then the score is 0, no source is listed and
\* review is false; matched_official_alias is set exactly when matched_via
\* is "official_alias"; an exact or fuzzy record lists at least one source.
C30_MatchFieldsAgree ==
    \A k \in 1..Len(enriched) :
        LET m == enriched[k].match
        IN  /\ m.match_type \in {"none", "exact", "fuzzy"}
            /\ m.matched_via \in {"", "official_name", "official_alias"}
            /\ (m.match_type = "none") <=> ~m.found_in_aggregators
            /\ (m.match_type = "none") <=> (m.matched_via = "")
            /\ m.match_type = "none" =>
                  /\ m.match_score = 0
                  /\ m.aggregator_sources = <<>>
                  /\ ~m.review
            /\ (m.matched_official_alias # <<>>) <=> (m.matched_via = "official_alias")
            /\ m.match_type \in {"exact", "fuzzy"} => m.aggregator_sources # <<>>
\* a registry of an exact match by an alias and of a fuzzy match
C30_Witness ==
    \E j, k \in 1..Len(enriched) :
        /\ enriched[j].match.match_type = "exact"
        /\ enriched[j].match.matched_via = "official_alias"
        /\ enriched[j].match.matched_official_alias # <<>>
        /\ enriched[k].match.match_type = "fuzzy"
        /\ enriched[k].match.aggregator_sources # <<>>

====
